---------------------------- MODULE Spec2Model ----------------------------
(***************************************************************************)
(* A model of dev_tools/docs/nxdl.py: NXClassDocGenerator, the generator   *)
(* of reStructuredText documentation for one NXDL class definition.        *)
(*                                                                         *)
(* Python values are modelled as follows.  A str is a TLA+ string; an      *)
(* attribute that an element does not carry (lxml's node.get() returning   *)
(* None) is the string None below; a list is a sequence.  A call either    *)
(* returns a value or raises: [kind |-> "return", value |-> v] or          *)
(* [kind |-> "raise", exc |-> class, msg |-> text].                        *)
(***************************************************************************)
EXTENDS Integers, Sequences, FiniteSets, TLC

VARIABLES
    call,   \* the operation invoked and its arguments
    ret     \* what the operation returned or raised; NotCalled before it ran

vars == <<call, ret>>

(***************************************************************************)
(* Bounds of the model.                                                    *)
(***************************************************************************)
\* longest list of <dim> entries with freely chosen indices, and the largest
\* index of those entries
MaxDims == 2
\* longest list of <dim> entries numbered 1, 2, 3, ... in declaration order,
\* and the largest numeric rank= attribute
MaxSeqDims == 4
\* most lines of the content of a <doc> element
MaxDocLines == 4
\* most <item> elements of an <enumeration>
MaxItems == 3

(***************************************************************************)
(* Python values.                                                          *)
(***************************************************************************)
None == "<None>"

NotCalled == [kind |-> "not called"]

Return(v) == [kind |-> "return", value |-> v]

Raise(exc, msg) == [kind |-> "raise", exc |-> exc, msg |-> msg]

\* bool(x) is False: a missing attribute or an empty string
Falsy(x) == x = None \/ x = ""

\* node.get(name, default)
Get(attr, default) == IF attr = None THEN default ELSE attr

DigitStr == <<"0", "1", "2", "3", "4", "5", "6", "7", "8", "9">>

\* str(n) for the one-digit naturals of the model
Str(n) == DigitStr[n + 1]

\* s.isdigit(), on the one-digit numerals and the other strings of the model
IsDigit(s) == \E n \in 0..9 : DigitStr[n + 1] = s

\* int(s) for s.isdigit()
ToInt(s) == CHOOSE n \in 0..9 : DigitStr[n + 1] = s

\* s.lower(), on the spellings of the model
Lower(s) ==
    CASE s = "False" -> "false"
      [] s = "True" -> "true"
      [] OTHER -> s

\* the backquote of reStructuredText, a character that a TLA+ string cannot
\* hold: the apostrophe stands for it, one character for one character
BQ == "'"

Max(a, b) == IF a >= b THEN a ELSE b

\* the value of a local variable: S is a set {e : x \in {v}} of one element,
\* e computed from the value of v, which is computed once as the assignment
\* computes it
Only(S) == CHOOSE x \in S : TRUE

RECURSIVE Join(_, _)
\* sep.join(strs)
Join(strs, sep) ==
    IF Len(strs) = 0 THEN ""
    ELSE IF Len(strs) = 1 THEN strs[1]
    ELSE strs[1] \o sep \o Join(Tail(strs), sep)

(***************************************************************************)
(* A str that the code takes apart (a name, a type, a path, an anchor) is  *)
(* the sequence of its characters; StrOf gives the str that is printed.    *)
(* Such an attribute that the element does not carry is NoneChars.         *)
(***************************************************************************)
NoneChars == <<None>>

RECURSIVE StrOf(_)
StrOf(chars) == IF Len(chars) = 0 THEN "" ELSE chars[1] \o StrOf(Tail(chars))

LowerCase ==
    <<"a", "b", "c", "d", "e", "f", "g", "h", "i", "j", "k", "l", "m">>
    \o <<"n", "o", "p", "q", "r", "s", "t", "u", "v", "w", "x", "y", "z">>

UpperCase ==
    <<"A", "B", "C", "D", "E", "F", "G", "H", "I", "J", "K", "L", "M">>
    \o <<"N", "O", "P", "Q", "R", "S", "T", "U", "V", "W", "X", "Y", "Z">>

\* the characters of the model in the order of their code points; the
\* apostrophe is the backquote (see BQ)
CodePoints ==
    <<"-", ".", "/">> \o <<"0", "1", "2", "3", "4", "5", "6", "7", "8", "9">>
    \o <<":", "<", ">", "@">> \o UpperCase \o <<"_", BQ>> \o LowerCase

\* ord(c)
Ord(c) == CHOOSE i \in 1..Len(CodePoints) : CodePoints[i] = c

\* c.upper() and c.lower()
UpperChar(c) ==
    IF \E i \in 1..Len(LowerCase) : LowerCase[i] = c
    THEN UpperCase[CHOOSE i \in 1..Len(LowerCase) : LowerCase[i] = c]
    ELSE c

LowerChar(c) ==
    IF \E i \in 1..Len(UpperCase) : UpperCase[i] = c
    THEN LowerCase[CHOOSE i \in 1..Len(UpperCase) : UpperCase[i] = c]
    ELSE c

\* s.upper() and s.lower()
UpperChars(chars) == [i \in 1..Len(chars) |-> UpperChar(chars[i])]

LowerChars(chars) == [i \in 1..Len(chars) |-> LowerChar(chars[i])]

\* a < b on str: the first character that differs decides, a proper prefix
\* is the smaller
LessChars(a, b) ==
    \E k \in 1..Len(b) :
        /\ k <= Len(a) + 1
        /\ \A i \in 1..(k - 1) : a[i] = b[i]
        /\ (k = Len(a) + 1 \/ Ord(a[k]) < Ord(b[k]))

\* s.startswith(prefix)
StartsWith(chars, prefix) ==
    /\ Len(chars) >= Len(prefix)
    /\ SubSeq(chars, 1, Len(prefix)) = prefix

RECURSIVE LStrip(_, _)
\* s.lstrip(set): the leading characters that are in set go
LStrip(chars, set) ==
    IF Len(chars) > 0 /\ chars[1] \in set THEN LStrip(Tail(chars), set)
    ELSE chars

\* s.find(c, start) and s.rfind(sub): an index from 0, or -1
Find(chars, c, start) ==
    IF \E i \in (start + 1)..Len(chars) : chars[i] = c
    THEN (CHOOSE i \in (start + 1)..Len(chars) :
            /\ chars[i] = c
            /\ \A k \in (start + 1)..(i - 1) : chars[k] # c) - 1
    ELSE -1

IsAt(chars, sub, i) ==
    i + Len(sub) - 1 <= Len(chars) /\ SubSeq(chars, i, i + Len(sub) - 1) = sub

RFind(chars, sub) ==
    IF \E i \in 1..Len(chars) : IsAt(chars, sub, i)
    THEN (CHOOSE i \in 1..Len(chars) :
            /\ IsAt(chars, sub, i)
            /\ \A k \in (i + 1)..Len(chars) : ~IsAt(chars, sub, k)) - 1
    ELSE -1

\* an index of a slice, counted from the end when negative, kept in 0..len
SliceIndex(n, len) ==
    IF n < 0 THEN Max(n + len, 0) ELSE IF n > len THEN len ELSE n

\* s[a:b], s[a:] and s[:b]
Slice(chars, a, b) ==
    SubSeq(chars, SliceIndex(a, Len(chars)) + 1, SliceIndex(b, Len(chars)))

SliceFrom(chars, a) == Slice(chars, a, Len(chars))

SliceTo(chars, b) == Slice(chars, 0, b)

\* c * n
RECURSIVE Repeat(_, _)
Repeat(c, n) == IF n = 0 THEN "" ELSE c \o Repeat(c, n - 1)

\* sorted(strs, key=key): a stable sort, key[i] the key of strs[i]
Sorted(strs, key) ==
    [p \in 1..Len(strs) |->
        strs[CHOOSE i \in 1..Len(strs) :
                p = 1 + Cardinality({j \in 1..Len(strs) :
                        \/ LessChars(key[j], key[i])
                        \/ key[j] = key[i] /\ j < i})]]

(***************************************************************************)
(* _analyze_dimensions.                                                    *)
(***************************************************************************)
\* the descriptor of a block that refers to another field
RefDescriptor(ref) ==
    " (Rank: same as field " \o ref \o ", Dimensions: same as field " \o ref \o ")"

\* the test of the value-less <dim ref=...>, which ends the analysis
ShortCircuitsMutant(subnode) == ~Falsy(subnode.ref)

ShortCircuits(subnode) == Falsy(subnode.value) /\ ~Falsy(subnode.ref)

\* required="false", in any case of the letters
NotRequired(subnode) == Lower(Get(subnode.required, "true")) = "false"

\* the test of a required <dim> after an optional one
OrderingViolatedMutant(notRequired, optional) == FALSE

OrderingViolated(notRequired, optional) == ~notRequired /\ optional

\* the <dim> loop: dims and optional are the loop's variables before entry i
RECURSIVE DimLoop(_, _, _, _)
DimLoop(node_list, i, dims, optional) ==
    IF i > Len(node_list)
    THEN [kind |-> "end", dims |-> dims, optional |-> optional]
    ELSE
    LET subnode == node_list[i]
        index == Get(subnode.index, "")
    IN  IF ~IsDigit(index)
        THEN Raise("RuntimeError", "A dimension must have an index")
        ELSE IF ToInt(index) <= 0
        THEN Raise("RuntimeError",
                   "A dimension's index must be a positive integer (>=1)")
        ELSE
        LET idx == ToInt(index) - 1
            nadd == Max(idx - Len(dims) + 1, 0)
            expanded == dims \o [k \in 1..nadd |-> "."]
            value == subnode.value
        IN  IF ShortCircuits(subnode)
            THEN Return(RefDescriptor(subnode.ref))
            ELSE
            LET dim == IF Falsy(value) THEN "." ELSE value
                notRequired == NotRequired(subnode)
            IN  IF OrderingViolated(notRequired, optional)
                THEN Raise("RuntimeError",
                    "A required dimension cannot come after an optional dimension")
                ELSE
                LET optional2 == optional \/ notRequired
                    shown == IF optional2 THEN "[" \o dim \o "]" ELSE dim
                IN  DimLoop(node_list, i + 1,
                            [expanded EXCEPT ![idx + 1] = shown], optional2)

\* the rank given to a block without rank= attribute
InferredRankMutant(rank, optional, ndims) ==
    IF rank = None /\ ndims # 0 THEN Str(ndims) ELSE rank

InferredRankAsDeclared(rank, optional, ndims) == rank

InferredRank(rank, optional, ndims) ==
    IF rank = None /\ ~optional /\ ndims # 0 THEN Str(ndims) ELSE rank

\* the same without the comparison of the rank with the number of dimensions
DimFinishMutant(declared, dims, optional) ==
    IF optional /\ ~Falsy(InferredRank(declared, optional, Len(dims)))
                /\ IsDigit(InferredRank(declared, optional, Len(dims)))
    THEN Raise("RuntimeError", "A fixed rank cannot have optional dimensions")
    ELSE IF ~Falsy(InferredRank(declared, optional, Len(dims)))
    THEN Return(" (Rank: " \o InferredRank(declared, optional, Len(dims))
                \o ", Dimensions: [" \o Join(dims, ", ") \o "])")
    ELSE Return(" (Dimensions: [" \o Join(dims, ", ") \o "])")

\* after the loop: rank inference, validation, formatting
DimFinish(declared, dims, optional) ==
    LET ndims == Len(dims)
        rank == InferredRank(declared, optional, ndims)
        rank_is_fixed == ~Falsy(rank) /\ IsDigit(rank)
    IN  IF optional /\ rank_is_fixed
        THEN Raise("RuntimeError", "A fixed rank cannot have optional dimensions")
        ELSE IF rank_is_fixed /\ ndims # 0 /\ ToInt(rank) # ndims
        THEN Raise("RuntimeError",
                   "The rank and the number of dimensions do not correspond")
        ELSE IF ~Falsy(rank) /\ ndims # 0
        THEN Return(" (Rank: " \o rank \o ", Dimensions: ["
                    \o Join(dims, ", ") \o "])")
        ELSE IF ~Falsy(rank)
        THEN Return(" (Rank: " \o rank \o ")")
        ELSE IF ndims # 0
        THEN Return(" (Dimensions: [" \o Join(dims, ", ") \o "])")
        ELSE Return("")

\* parent.dimensions: the <dimensions> children of a field, in document order
AnalyzeDimensions(parent) ==
    IF Len(parent.dimensions) # 1 THEN Return("")
    ELSE
    LET node == parent.dimensions[1]
        loop == DimLoop(node.dims, 1, <<>>, FALSE)
    IN  IF loop.kind # "end" THEN loop
        ELSE DimFinish(node.rank, loop.dims, loop.optional)

(***************************************************************************)
(* The inputs of the model.                                                *)
(***************************************************************************)
\* the names of the symbols the entries give as value=, by position
Symbols == <<"a", "b", "c", "d", "e", "f">>

\* the names of the fields the entries give as ref=, by position
Fields == <<"u", "v", "w", "x", "y", "z">>

IndexValues == {None, "0"} \cup {Str(n) : n \in 1..MaxDims}

ValueValues(k) == {None, Symbols[k]}

RefValues(k) == {None, Fields[k]}

RequiredValues == {None, "false"}

\* a <dim> element at position k of its block, its index chosen in idx
DimNodes(k, idx) ==
    [index : idx, value : ValueValues(k), ref : RefValues(k),
     required : RequiredValues]

\* lists of n entries, entry k drawn from DimNodes(k, idxs(k))
RECURSIVE DimLists(_, _)
DimLists(n, free) ==
    IF n = 0 THEN {<<>>}
    ELSE { Append(l, d) :
             l \in DimLists(n - 1, free),
             d \in DimNodes(n, IF free THEN IndexValues ELSE {Str(n)}) }

NodeLists ==
    UNION { DimLists(n, TRUE) : n \in 0..MaxDims }
    \cup UNION { DimLists(n, FALSE) : n \in 0..MaxSeqDims }

RankValues == {None, "", "dataRank"} \cup {Str(n) : n \in 1..MaxSeqDims}

DimensionsNodes == [rank : RankValues, dims : NodeLists]

\* a field with no <dimensions>, with one, or with two
FieldsWithDimensions ==
    {[dimensions |-> <<>>]}
    \cup {[dimensions |-> <<d>>] : d \in DimensionsNodes}
    \cup {[dimensions |-> <<d, d>>] :
            d \in {e \in DimensionsNodes : Len(e.dims) = 0}}

(***************************************************************************)
(* The specification of the dimension resolver: any field of the model is  *)
(* handed to _analyze_dimensions.                                          *)
(***************************************************************************)
InitDims ==
    /\ call \in {[fn |-> "_analyze_dimensions", parent |-> p] :
                   p \in FieldsWithDimensions}
    /\ ret = NotCalled

CallAnalyzeDimensions ==
    /\ call.fn = "_analyze_dimensions"
    /\ ret = NotCalled
    /\ ret' = AnalyzeDimensions(call.parent)
    /\ UNCHANGED call

NextDims == CallAnalyzeDimensions

SpecDims == InitDims /\ [][NextDims]_vars


(***************************************************************************)
(* _get_required_or_optional_text and _get_minOccurs.  An element's tag is *)
(* lxml's "{namespace}name", modelled as the pair <<namespace, name>>;     *)
(* gen is the generator, with the fields _parse_nxdl_file has set.         *)
(***************************************************************************)
NXDL_NAMESPACE == "http://definition.nexusformat.org/nxdl/3.1"

\* node.tag.split("}")[-1]
LocalName(tag) == tag[Len(tag)]

\* x in (True, "true", "1", 1), for x a str or a bool
IsTrue(x) == x \in {"true", "1"} \/ x = "True:bool"

\* a bool as the model keeps it among strings
Bool(b) == IF b THEN "True:bool" ELSE "False:bool"

\* str(int(b))
StrInt(b) == IF b THEN Str(1) ELSE Str(0)

GetMinOccurs(gen, node) ==
    Get(node.minOccurs, StrInt(gen.use_application_defaults))

\* the label of a field or a group
FieldOrGroupText(optional, recommended, minOccurs) ==
    IF recommended THEN "(recommended) "
    ELSE IF minOccurs = "0" \/ optional THEN "(optional) "
    ELSE IF minOccurs = "1" THEN "(required) "
    ELSE "(" \o BQ \o BQ \o "minOccurs=" \o minOccurs \o BQ \o BQ \o ") "

\* the label of an attribute
AttributeText(optional, recommended) ==
    IF recommended THEN "(recommended) "
    ELSE IF optional THEN "(optional) " ELSE "(required) "

GetRequiredOrOptionalText(gen, node) ==
    LET tag == LocalName(node.tag)
        optional_default == Bool(~gen.use_application_defaults)
        optional == IsTrue(Get(node.optional, optional_default))
        recommended == IsTrue(Get(node.recommended, None))
    IN  IF tag \in {"field", "group"}
        THEN FieldOrGroupText(optional, recommended, GetMinOccurs(gen, node))
        ELSE IF tag = "attribute"
        THEN AttributeText(optional, recommended)
        ELSE "(unknown tag: " \o tag \o ") "

\* the elements the classifier is handed, and the other elements of a tree
TagNames == {"field", "group", "attribute", "link"}

OptionalValues == {None, "true", "false", "1", "0"}

RecommendedValues == {None, "true", "false"}

MinOccursValues == {None, "0", "1", "2"}

ClassifiedNodes ==
    [tag : {<<NXDL_NAMESPACE, t>> : t \in TagNames},
     optional : OptionalValues, recommended : RecommendedValues,
     minOccurs : MinOccursValues]

Generators == [use_application_defaults : BOOLEAN]

InitText ==
    /\ call \in {[fn |-> "_get_required_or_optional_text", self |-> g,
                  node |-> n] : g \in Generators, n \in ClassifiedNodes}
    /\ ret = NotCalled

CallGetRequiredOrOptionalText ==
    /\ call.fn = "_get_required_or_optional_text"
    /\ ret = NotCalled
    /\ ret' = Return(GetRequiredOrOptionalText(call.self, call.node))
    /\ UNCHANGED call

NextText == CallGetRequiredOrOptionalText

SpecText == InitText /\ [][NextText]_vars

(***************************************************************************)
(* Text.  The content of a <doc> element is a sequence of lines, the text  *)
(* between two "\n"; a line is [lead |-> n, body |-> s]: n spaces, then s, *)
(* which starts with no white space and is "" for a line of white space    *)
(* only.  The state st of a render is [rst_lines, anchors, buffer]: the    *)
(* line buffer self._rst_lines, the calls of _hyperlink_target so far, and *)
(* the anchors the registry holds until they are flushed.  Each            *)
(* entry of rst_lines is [at |-> n, text |-> s]: the string appended and   *)
(* the line of nxdl.py whose self._print appended it.  A method that       *)
(* prints returns Ok(st) or Exc(st, msg).                                  *)
(***************************************************************************)
\* controlling the length of progressively more indented sub-node
MIN_COLLAPSE_HINT_LINE_LENGTH == 20

MAX_COLLAPSE_HINT_LINE_LENGTH == 80

ENUMERATION_INLINE_LENGTH == 60

INDENTATION_UNIT == "  "

RECURSIVE Spaces(_)
\* " " * n
Spaces(n) == IF n = 0 THEN "" ELSE " " \o Spaces(n - 1)

Ok(st) == [kind |-> "ok", st |-> st]

\* raise Exception(msg), the buffer as it was left
Exc(st, msg) == [kind |-> "raise", exc |-> "Exception", msg |-> msg, st |-> st]

\* self._print(text, end=end) at line at of nxdl.py
PrintLine(st, at, text, end) ==
    [st EXCEPT !.rst_lines = Append(@, [at |-> at, text |-> text \o end])]

IsBlank(line) == line.body = ""

\* the text of a processed line, and of a block ("\n".join(out_lines))
LineText(line) == Spaces(line.lead) \o line.body

RECURSIVE LineTexts(_)
LineTexts(lines) ==
    IF Len(lines) = 0 THEN <<>>
    ELSE <<LineText(lines[1])>> \o LineTexts(Tail(lines))

\* html.unescape, on the bodies of the model
Unescape(line) ==
    [line EXCEPT !.body = CASE @ = "a &lt; b" -> "a < b" [] OTHER -> @]

RECURSIVE UnescapeAll(_)
UnescapeAll(lines) ==
    IF Len(lines) = 0 THEN <<>>
    ELSE <<Unescape(lines[1])>> \o UnescapeAll(Tail(lines))

\* re.search(r"^<doc[^>]*>\n?(.*)\n?</doc>$", s, re.DOTALL).group(1): the
\* content less one leading "\n"; the greedy (.*) keeps a trailing "\n"
DocText(content) ==
    IF Len(content) >= 2 /\ content[1] = [lead |-> 0, body |-> ""]
    THEN Tail(content) ELSE content

\* re.split("\n\\s*\n", text): a separator runs from the end of a line over
\* the lines of white space that follow it and are themselves ended by "\n"
RECURSIVE SplitBlocks(_)
SplitBlocks(lines) ==
    Only({
        IF starts = {} THEN <<lines>>
        ELSE
        Only({
            Only({ <<SubSeq(lines, 1, i)>>
                   \o SplitBlocks(SubSeq(lines, j + 1, Len(lines))) :
                j \in {CHOOSE k \in (i + 1)..(Len(lines) - 1) :
                         /\ \A m \in (i + 1)..k : IsBlank(lines[m])
                         /\ (k = Len(lines) - 1 \/ ~IsBlank(lines[k + 1]))} }) :
            i \in {CHOOSE k \in starts : \A m \in starts : k <= m} }) :
        starts \in {{s \in 1..(Len(lines) - 2) : IsBlank(lines[s + 1])}} })

\* block.splitlines(): a final "\n" opens no further line
SplitLines(block) ==
    IF block[Len(block)] = [lead |-> 0, body |-> ""]
    THEN SubSeq(block, 1, Len(block) - 1) ELSE block

RECURSIVE RStrip(_)
\* block.rstrip(), then splitlines(): the trailing lines of white space go
RStrip(block) ==
    IF Len(block) = 0 THEN <<>>
    ELSE IF IsBlank(block[Len(block)])
    THEN RStrip(SubSeq(block, 1, Len(block) - 1))
    ELSE block

\* the lines of a block less the common indentation of k spaces, or the
\* line that does not start with it
RECURSIVE Dedent(_, _)
Dedent(lines, k) ==
    IF Len(lines) = 0 THEN [kind |-> "ok", lines |-> <<>>]
    ELSE IF IsBlank(lines[1]) \/ lines[1].lead < k
    THEN [kind |-> "bad", line |-> lines[1]]
    ELSE
    Only({ IF rest.kind = "bad" THEN rest
           ELSE [kind |-> "ok",
                 lines |-> <<[lines[1] EXCEPT !.lead = @ - k]>> \o rest.lines] :
        rest \in {Dedent(Tail(lines), k)} })

RECURSIVE DedentBlocks(_, _)
DedentBlocks(blocks, k) ==
    IF Len(blocks) = 0 THEN Return(<<>>)
    ELSE
    Only({ IF first.kind = "bad"
           THEN Raise("Exception", "Bad indentation in <doc>")
           ELSE
           Only({ IF rest.kind = "raise" THEN rest
                  ELSE Return(<<first.lines>> \o rest.value) :
               rest \in {DedentBlocks(Tail(blocks), k)} }) :
        first \in {Only({Dedent(block, k) : block \in {RStrip(blocks[1])}})} })

\* _get_doc_blocks: the paragraph blocks of node's <doc>, each the sequence
\* of its lines; a block "" is the block of no lines.  The "" it returns for
\* a node without <doc> is the empty sequence: len() is 0 for both.
GetDocBlocks(node) ==
    IF Len(node.docs) = 0 THEN Return(<<>>)
    ELSE IF Len(node.docs) > 1 THEN Raise("Exception", "Too many doc elements")
    ELSE
    Only({
        IF Len(blocks) = 1 /\ Len(SplitLines(blocks[1])) = 1
        THEN Return(<< IF IsBlank(blocks[1][1]) THEN <<>>
                       ELSE <<[lead |-> 0, body |-> blocks[1][1].body]>> >>)
        ELSE
        \* re.match(r"(\s*)(\S+)", blocks[0])
        IF \A i \in 1..Len(blocks[1]) : IsBlank(blocks[1][i])
        THEN Return(<< <<>> >>)
        ELSE IF IsBlank(blocks[1][1])
        \* the indentation found spans a "\n", and no line starts with it
        THEN Raise("Exception", "Bad indentation in <doc>")
        ELSE IF blocks[1][1].lead = 0
        THEN Raise("Exception", "Missing initial indentation in <doc>")
        ELSE Only({ DedentBlocks(blocks, k) : k \in {blocks[1][1].lead} }) :
        blocks \in {Only({ SplitBlocks(text) :
                      text \in {UnescapeAll(DocText(node.docs[1]))} })} })

\* _get_doc_line
GetDocLine(node) ==
    Only({ IF blocks.kind = "raise" THEN blocks
           ELSE IF Len(blocks.value) = 0 THEN Return("")
           ELSE IF Len(blocks.value) > 1
           THEN Raise("Exception", "Unexpected multi-paragraph doc")
           ELSE Return(Join(LineTexts(blocks.value[1]), " ")) :
        blocks \in {GetDocBlocks(node)} })

(***************************************************************************)
(* _print_enumeration, _print_doc, long_doc and _print_doc_enum.           *)
(***************************************************************************)
\* f"``{msg}``"
ShowAsTypedText(msg) == BQ \o BQ \o msg \o BQ \o BQ

\* docs[name] = doc on an OrderedDict kept as a sequence of [name, doc]: a
\* name already there keeps its place and takes the new doc
DictSet(docs, name, doc) ==
    IF \E i \in 1..Len(docs) : docs[i].name = name
    THEN [i \in 1..Len(docs) |->
            IF docs[i].name = name THEN [name |-> name, doc |-> doc]
            ELSE docs[i]]
    ELSE Append(docs, [name |-> name, doc |-> doc])

\* the loop over the items: the OrderedDict, or what _get_doc_line raised
RECURSIVE ItemDocs(_, _)
ItemDocs(node_list, docs) ==
    IF Len(node_list) = 0 THEN Return(docs)
    ELSE
    Only({ IF doc.kind = "raise" THEN doc
           ELSE Only({ ItemDocs(Tail(node_list), set) :
                    set \in {DictSet(docs, node_list[1].value, doc.value)} }) :
        doc \in {GetDocLine(node_list[1])} })

RECURSIVE DictKeys(_)
DictKeys(docs) ==
    IF Len(docs) = 0 THEN <<>>
    ELSE <<ShowAsTypedText(docs[1].name)>> \o DictKeys(Tail(docs))

\* the test of the one-item-per-line form
OnePerLineMutant(docs, oneliner) ==
    \/ \E i \in 1..Len(docs) : docs[i].doc # ""
    \/ Len(oneliner) >= ENUMERATION_INLINE_LENGTH

OnePerLine(docs, oneliner) ==
    \/ \E i \in 1..Len(docs) : docs[i].doc # ""
    \/ Len(oneliner) > ENUMERATION_INLINE_LENGTH

\* print one item per line
RECURSIVE PrintItems(_, _, _)
PrintItems(st, indent, docs) ==
    IF Len(docs) = 0 THEN st
    ELSE
    Only({ PrintItems(st3, indent, Tail(docs)) :
        st3 \in {PrintLine(
                   IF docs[1].doc # ""
                   THEN PrintLine(
                          PrintLine(st, 512, indent \o "  * "
                                    \o ShowAsTypedText(docs[1].name), ""),
                          514, ": " \o docs[1].doc, "")
                   ELSE PrintLine(st, 512, indent \o "  * "
                                  \o ShowAsTypedText(docs[1].name), ""),
                   515, "\n", "\n")} })

PrintEnumeration(st, indent, parent) ==
    IF Len(parent.items) = 0 THEN Ok(st)
    ELSE
    Only({
        IF docs.kind = "raise" THEN Exc(st1, docs.msg)
        ELSE
        Only({ Ok(PrintLine(
                    IF OnePerLine(docs.value, oneliner)
                    THEN PrintItems(PrintLine(st1, 510, "\n", "\n"),
                                    indent, docs.value)
                    ELSE PrintLine(st1, 518, " " \o oneliner, "\n"),
                    519, "", "\n")) :
            oneliner \in {Join(DictKeys(docs.value), " | ")} }) :
        st1 \in {IF Len(parent.items) = 1
                 THEN PrintLine(st, 490, indent \o "Obligatory value:", "")
                 ELSE PrintLine(st, 492, indent \o "Any of these values:", "")},
        docs \in {ItemDocs(parent.items, <<>>)} })

RECURSIVE PrintBlockLines(_, _, _)
PrintBlockLines(st, indent, lines) ==
    IF Len(lines) = 0 THEN st
    ELSE PrintBlockLines(PrintLine(st, 530, indent \o LineText(lines[1]), "\n"),
                         indent, Tail(lines))

RECURSIVE PrintBlocks(_, _, _)
PrintBlocks(st, indent, blocks) ==
    IF Len(blocks) = 0 THEN st
    ELSE PrintBlocks(PrintLine(PrintBlockLines(st, indent, blocks[1]),
                               531, "", "\n"),
                     indent, Tail(blocks))

PrintDoc(st, indent, node, required) ==
    Only({ IF blocks.kind = "raise" THEN Exc(st, blocks.msg)
           ELSE IF Len(blocks.value) = 0
           THEN IF required
                THEN Exc(st, "No documentation for: " \o StrOf(node.name))
                ELSE Ok(PrintLine(st, 526, "", "\n"))
           ELSE Ok(PrintBlocks(st, indent, blocks.value)) :
        blocks \in {GetDocBlocks(node)} })

RECURSIVE Concat(_)
\* the lines of all blocks, in order
Concat(blocks) ==
    IF Len(blocks) = 0 THEN <<>> ELSE blocks[1] \o Concat(Tail(blocks))

\* single_line[0] != ".", on the bodies of the model
StartsWithDot(line) == line.lead = 0 /\ line.body \in {".. note::", "."}

\* text[:n]; every line of the model is shorter than the shortest hint
Truncate(text, n) == CASE Len(text) <= n -> text

\* long_doc: (length, line, blocks), or what _get_doc_blocks raised
LongDoc(node, left_margin) ==
    Only({
        IF blocks.kind = "raise" THEN blocks
        ELSE
        Only({
            Only({ Return([length |-> Len(lines),
                           line |-> IF found = {} THEN "documentation"
                                    ELSE Truncate(
                                        LineText(lines[CHOOSE i \in found :
                                                   \A k \in found : i <= k]),
                                        max_characters)]) :
                found \in {{i \in 1..Len(lines) :
                              /\ Len(LineText(lines[i])) > 2
                              /\ ~StartsWithDot(lines[i])}} }) :
            lines \in {Concat(blocks.value)},
            max_characters \in
                {Max(MIN_COLLAPSE_HINT_LINE_LENGTH,
                     MAX_COLLAPSE_HINT_LINE_LENGTH - left_margin)} }) :
        blocks \in {GetDocBlocks(node)} })

\* the test of the collapsible block
CollapsesMutant(nenum, doclen) == nenum + doclen >= 1

Collapses(nenum, doclen) == nenum + doclen > 1

PrintDocEnum(st, indent, node, required) ==
    Only({
        IF long.kind = "raise" THEN Exc(st, long.msg)
        ELSE
        Only({
            Only({ IF doc.kind = "raise" THEN doc
                   ELSE IF Len(node_list) = 1
                   THEN PrintEnumeration(doc.st,
                            collapse_indent \o INDENTATION_UNIT, node_list[1])
                   ELSE doc :
                doc \in {PrintDoc(
                           IF collapse
                           THEN PrintLine(st, 556,
                                    indent \o INDENTATION_UNIT
                                    \o ".. collapse:: " \o long.value.line
                                    \o " ...\n", "\n")
                           ELSE st,
                           collapse_indent \o INDENTATION_UNIT, node,
                           required)} }) :
            collapse \in {Collapses(Len(node_list), long.value.length)},
            collapse_indent \in
                {IF Collapses(Len(node_list), long.value.length)
                 THEN indent \o "    " ELSE indent} }) :
        node_list \in {node.enumerations},
        long \in {LongDoc(node, Len(indent))} })

(***************************************************************************)
(* The specification of the documentation and enumeration printers: any    *)
(* node of the model is handed to _print_doc_enum, any enumeration to      *)
(* _print_enumeration, the line buffer empty.                              *)
(***************************************************************************)
\* the lines a <doc> is written with
DocLines ==
    { [lead |-> 0, body |-> ""], [lead |-> 2, body |-> ""],
      [lead |-> 0, body |-> "Text"], [lead |-> 2, body |-> "Text"],
      [lead |-> 4, body |-> "a &lt; b"], [lead |-> 2, body |-> ".. note::"] }

RECURSIVE SeqsOf(_, _)
\* the sequences of n elements of S
SeqsOf(S, n) ==
    IF n = 0 THEN {<<>>}
    ELSE {Append(q, x) : q \in SeqsOf(S, n - 1), x \in S}

SeqsUpTo(S, n) == UNION {SeqsOf(S, k) : k \in 0..n}

DocContents == SeqsUpTo(DocLines, MaxDocLines) \ {<<>>}

\* <doc>Text</doc>
OneLineDoc == << [lead |-> 0, body |-> "Text"] >>

\* a paragraph of two lines, indented, the closing tag on a line of its own
TwoLineDoc ==
    << [lead |-> 0, body |-> ""], [lead |-> 2, body |-> "Text"],
       [lead |-> 2, body |-> "Text"], [lead |-> 0, body |-> ""] >>

TwoBlockDoc ==
    << [lead |-> 0, body |-> ""], [lead |-> 2, body |-> "Text"],
       [lead |-> 0, body |-> ""], [lead |-> 2, body |-> "Text"],
       [lead |-> 0, body |-> ""] >>

\* the <doc> children of a node: none, one, two
DocsValues ==
    {<<>>, <<OneLineDoc, OneLineDoc>>} \cup {<<c>> : c \in DocContents}

ItemDocsValues ==
    {<<>>, <<OneLineDoc>>, <<TwoLineDoc>>, <<TwoBlockDoc>>,
     <<OneLineDoc, OneLineDoc>>}

\* item values of 1, 24, 25 and 25 characters
ItemValues ==
    {"a", "abcdefghijklmnopqrstuvwx", "abcdefghijklmnopqrstuvwxy",
     "zyxwvutsrqponmlkjihgfedcb"}

Items == [value : ItemValues, docs : ItemDocsValues]

Enumerations == [items : SeqsUpTo(Items, MaxItems)]

\* the <enumeration> children of the nodes handed to _print_doc_enum
NodeEnumerations ==
    LET none == [items |-> <<>>]
        one == [items |-> << [value |-> "a", docs |-> <<>>] >>]
        two == [items |-> << [value |-> "a", docs |-> <<OneLineDoc>>],
                             [value |-> "a", docs |-> <<>>] >>]
        bad == [items |-> << [value |-> "a", docs |-> <<TwoBlockDoc>>] >>]
    IN  {<<>>, <<none>>, <<one>>, <<two>>, <<bad>>, <<one, two>>}

Indents == {"", INDENTATION_UNIT}

EmptyState == [rst_lines |-> <<>>, anchors |-> <<>>, buffer |-> <<>>]

InitDoc ==
    /\ call \in
          {[fn |-> "_print_doc_enum", indent |-> i,
            node |-> [name |-> <<"n">>, docs |-> d, enumerations |-> e],
            required |-> r] :
              i \in Indents, d \in DocsValues, e \in NodeEnumerations,
              r \in BOOLEAN}
          \cup {[fn |-> "_print_enumeration", indent |-> i, parent |-> e] :
                  i \in Indents, e \in Enumerations}
    /\ ret = NotCalled

CallPrintDocEnum ==
    /\ call.fn = "_print_doc_enum"
    /\ ret = NotCalled
    /\ ret' = PrintDocEnum(EmptyState, call.indent, call.node, call.required)
    /\ UNCHANGED call

CallPrintEnumeration ==
    /\ call.fn = "_print_enumeration"
    /\ ret = NotCalled
    /\ ret' = PrintEnumeration(EmptyState, call.indent, call.parent)
    /\ UNCHANGED call

NextDoc == CallPrintDocEnum \/ CallPrintEnumeration

SpecDoc == InitDoc /\ [][NextDoc]_vars

(***************************************************************************)
(* The collaborators of the generator: the anchor registry                 *)
(* (anchor_list.AnchorRegistry), the resolver of inherited nodes           *)
(* (nxdl_utils.get_inherited_nodes), the contributors of a file            *)
(* (github.get_file_contributors_via_api) and the location of the          *)
(* definitions.  env is what they answer during one render.                *)
(***************************************************************************)
\* anchor_registry.add(target): the registry is duplicate-safe
RegistryAdd(buffer, target) ==
    IF \E i \in 1..Len(buffer) : buffer[i] = target THEN buffer
    ELSE Append(buffer, target)

\* anchor_registry.flush_anchor_buffer(): the anchors held, which it drops
FlushAnchorBuffer(buffer) == [anchors |-> buffer, buffer |-> <<>>]

\* get_inherited_nodes(path, nx_name): (path, class, parents), or the class
\* is not found
GetInheritedNodes(env, path, nx_name) ==
    IF ~env.resolver.found THEN Raise("FileNotFoundError", StrOf(nx_name))
    ELSE Return(<<path, nx_name, env.resolver.parents>>)

\* get_file_contributors_via_api(...): None, or the contributors by date
NoContribs == [none |-> TRUE, items |-> <<>>]

Contribs(items) == [none |-> FALSE, items |-> items]

REPO_URL == "https://github.com/nexusformat/definitions/blob/main"

\* the character U+2906 of the back-reference, which the model spells "<="
ARROW == "<="

(***************************************************************************)
(* _hyperlink_target, _format_type, _format_units, get_first_parent_ref.   *)
(***************************************************************************)
\* the node kinds, as the strings that end an anchor
TagChars ==
    [field |-> <<"f", "i", "e", "l", "d">>, group |-> <<"g", "r", "o", "u", "p">>,
     attribute |-> 
         <<"a", "t", "t", "r", "i", "b", "u", "t", "e">>,
     link |-> <<"l", "i", "n", "k">>]

\* f"{parent_path}{sep}{name}-{nxtype}"
Target(parent_path, name, nxtype) ==
    parent_path \o <<IF nxtype = "attribute" THEN "@" ELSE "/">> \o name
    \o <<"-">> \o TagChars[nxtype]

\* the value _hyperlink_target returns
TargetText(target) == ".. _" \o StrOf(target) \o ":\n"

\* the call of _hyperlink_target at line at, for the element id: the call is
\* recorded, and the target is handed to the registry if there is one
HyperlinkTarget(self, st, parent_path, name, nxtype, at, id) ==
    [st EXCEPT
        !.anchors = Append(@, [at |-> at, node |-> id, nxtype |-> nxtype,
                               name |-> name,
                               target |-> Target(parent_path, name, nxtype),
                               registered |-> self.anchor_registry]),
        !.buffer = IF self.anchor_registry
                   THEN RegistryAdd(@, Target(parent_path, name, nxtype))
                   ELSE @]

NX_ == <<"N", "X", "_">>

FormatType(node) ==
    IF node.type = NoneChars
    THEN ":ref:" \o BQ \o "NX_CHAR <NX_CHAR>" \o BQ
    ELSE IF StartsWith(node.type, NX_)
    THEN ":ref:" \o BQ \o StrOf(node.type) \o " <" \o StrOf(node.type)
         \o ">" \o BQ
    ELSE StrOf(node.type)

FormatUnits(node) ==
    IF node.units = NoneChars \/ node.units = <<>> THEN ""
    ELSE IF StartsWith(node.units, NX_)
    THEN " {units=\\ :ref:" \o BQ \o StrOf(node.units) \o " <"
         \o StrOf(node.units) \o ">" \o BQ \o "}"
    ELSE " {units=" \o StrOf(node.units) \o "}"

\* parent_path with its last "/" replaced by "@"
AtPath(parent_path) ==
    SliceTo(parent_path, RFind(parent_path, <<"/">>)) \o <<"@">>
    \o SliceFrom(parent_path, RFind(parent_path, <<"/">>) + 1)

\* the reference to parents[1], from line 689 on
ParentRef(parent, tag) ==
    Only({
        \* parent_path[1:].split("/")[0] == ""
        IF Len(parent.nxdlpath) <= 1 \/ parent.nxdlpath[2] = "/" THEN ""
        ELSE IF /\ tag = "attribute"
                /\ parent_def_name = <<"/", "N", "X", "n", "o", "t", "e">>
                /\ parent.nxdlpath = <<"/", "t", "y", "p", "e">>
        THEN ""
        ELSE ":ref:" \o BQ \o ARROW \o " </"
             \o StrOf(SliceFrom(parent_def_name, 1))
             \o StrOf(IF tag = "attribute" THEN AtPath(parent.nxdlpath)
                      ELSE parent.nxdlpath)
             \o "-" \o tag \o ">" \o BQ :
        parent_def_name \in
            {Slice(parent.nxdlbase, RFind(parent.nxdlbase, <<"/">>),
                   RFind(parent.nxdlbase, <<".", "n", "x", "d", "l">>))} })

\* without the except clause
GetFirstParentRefMutant(env, path, tag) ==
    Only({
        IF parents.kind = "raise" THEN parents
        ELSE IF Len(parents.value[3]) > 1
        THEN Return(ParentRef(parents.value[3][2], tag))
        ELSE Return("") :
        parents \in {GetInheritedNodes(env,
                        SliceFrom(path, Find(path, "/", 1)),
                        Slice(path, 1, Find(path, "/", 1)))} })

GetFirstParentRef(env, path, tag) ==
    Only({
        IF parents.kind = "raise"
        THEN IF parents.exc = "FileNotFoundError" THEN Return("") ELSE parents
        ELSE IF Len(parents.value[3]) > 1
        THEN Return(ParentRef(parents.value[3][2], tag))
        ELSE Return("") :
        parents \in {GetInheritedNodes(env,
                        SliceFrom(path, Find(path, "/", 1)),
                        Slice(path, 1, Find(path, "/", 1)))} })

(***************************************************************************)
(* _print_attribute, _print_if_deprecated and _print_full_tree.  An        *)
(* element is a record of its attributes, its <doc>, <enumeration> and     *)
(* <dimensions> children, and children: its other child elements in        *)
(* document order.  The elements of a document are told apart by id, the   *)
(* sequence of child positions that leads from the root to the element.    *)
(***************************************************************************)
\* an exception raised by a callee, the buffer as it was left
Raised(st, r) == [kind |-> "raise", exc |-> r.exc, msg |-> r.msg, st |-> st]

\* parent.xpath("nx:" + tag): the positions of the children of that tag
XPath(parent, tag) ==
    SelectSeq([i \in 1..Len(parent.children) |-> i],
              LAMBDA i : LocalName(parent.children[i].tag) = tag)

\* an index entry
IndexEntryMutant(indent, index_name, what) ==
    indent \o ".. index:: " \o index_name \o "\n"

IndexEntry(indent, index_name, what) ==
    indent \o ".. index:: " \o index_name \o " (" \o what \o ")\n"

PrintIfDeprecated(st, node, indent) ==
    IF node.deprecated = None THEN st
    ELSE PrintLine(
            PrintLine(st, 580, "\n" \o indent \o ".. index:: deprecated\n",
                      "\n"),
            581, "\n" \o indent \o "**DEPRECATED**: " \o node.deprecated
                 \o "\n", "\n")

PrintAttribute(self, env, st, kind, node, optional, indent, parent_path, id) ==
    Only({
        IF ref.kind = "raise" THEN Raised(st2, ref)
        ELSE PrintDocEnum(
                PrintLine(st2, 572,
                    indent \o "**@" \o StrOf(node.name) \o "**: " \o optional
                    \o FormatType(node) \o FormatUnits(node) \o " "
                    \o ref.value \o "\n", "\n"),
                indent, node, FALSE) :
        st2 \in {PrintLine(
                    PrintLine(
                        HyperlinkTarget(self, st, parent_path, node.name,
                                        "attribute", 568, id),
                        568, indent \o TargetText(Target(parent_path,
                                            node.name, "attribute")), "\n"),
                    571, IndexEntry(indent, StrOf(node.name),
                                    kind \o " attribute"), "\n")},
        ref \in {GetFirstParentRef(env, parent_path \o <<"/">> \o node.name,
                                   "attribute")} })

\* a loop over the <attribute> children of node at the positions subnodes
RECURSIVE PrintAttributes(_, _, _, _, _, _, _, _, _)
PrintAttributes(self, env, st, kind, node, subnodes, indent, parent_path, id) ==
    IF Len(subnodes) = 0 THEN Ok(st)
    ELSE
    Only({ IF done.kind = "raise" THEN done
           ELSE PrintAttributes(self, env, done.st, kind, node, Tail(subnodes),
                                indent, parent_path, id) :
        done \in {PrintAttribute(self, env, st, kind,
                     node.children[subnodes[1]],
                     GetRequiredOrOptionalText(self,
                                               node.children[subnodes[1]]),
                     indent, parent_path, Append(id, subnodes[1]))} })

\* the body of the loop over the fields
PrintField(self, env, st, node, indent, parent_path, id) ==
    Only({
        IF dims.kind = "raise" THEN Raised(st, dims)
        ELSE
        Only({
            IF ref.kind = "raise" THEN Raised(st2, ref)
            ELSE
            Only({ IF doc.kind = "raise" THEN doc
                   ELSE PrintAttributes(self, env, doc.st, "field", node,
                            XPath(node, "attribute"),
                            indent \o INDENTATION_UNIT,
                            parent_path \o <<"/">> \o node.name, id) :
                doc \in {PrintDocEnum(
                           PrintIfDeprecated(
                               PrintLine(st2, 601,
                                   indent \o "**" \o StrOf(node.name) \o "**: "
                                   \o GetRequiredOrOptionalText(self, node)
                                   \o FormatType(node) \o dims.value
                                   \o FormatUnits(node) \o " " \o ref.value
                                   \o "\n", "\n"),
                               node, indent \o INDENTATION_UNIT),
                           indent, node, FALSE)} }) :
            st2 \in {PrintLine(
                        PrintLine(
                            HyperlinkTarget(self, st, parent_path, node.name,
                                            "field", 599, id),
                            599, indent \o TargetText(Target(parent_path,
                                                node.name, "field")), "\n"),
                        600, IndexEntry(indent, StrOf(node.name), "field"),
                        "\n")},
            ref \in {GetFirstParentRef(env,
                        parent_path \o <<"/">> \o node.name, "field")} }) :
        dims \in {AnalyzeDimensions(node)} })

\* node.get(name, default) for an attribute kept as characters
GetChars(attr, default) == IF attr = NoneChars THEN default ELSE attr

\* node.get("type", ...) of a group
UNTYPED ==
    <<"u", "n", "t", "y", "p", "e", "d", " ", "(", "t", "h", "i",
      "s", " ", "i", "s", " ", "a", "n", " ", "e", "r", "r", "o",
      "r", ";", " ", "p", "l", "e", "a", "s", "e", " ", "r", "e",
      "p", "o", "r", "t", ")">>

NX == <<"N", "X">>

\* the name a group is printed and anchored with
GroupName(node) ==
    IF StartsWith(GetChars(node.type, UNTYPED), NX)
       /\ GetChars(node.name, <<>>) = <<>>
    THEN UpperChars(LStrip(node.type, {"N", "X"}))
    ELSE GetChars(node.name, <<>>)

\* the type a group is printed with
GroupType(node) ==
    IF StartsWith(GetChars(node.type, UNTYPED), NX)
    THEN ":ref:" \o BQ \o StrOf(node.type) \o BQ
    ELSE StrOf(GetChars(node.type, UNTYPED))

\* the three loops of _print_full_tree, in the order of the code
TreeLoopsMutant == <<"field", "link", "group">>

TreeLoops == <<"field", "group", "link">>

RECURSIVE PrintFullTree(_, _, _, _, _, _, _, _)
RECURSIVE PrintNodes(_, _, _, _, _, _, _, _)

\* the body of the loop over the groups
PrintGroup(self, env, st, node, indent, parent_path, id) ==
    Only({
        Only({
            IF ref.kind = "raise" THEN Raised(st2, ref)
            ELSE
            Only({
                IF doc.kind = "raise" THEN doc
                ELSE
                Only({ IF attrs.kind = "raise" THEN attrs
                       ELSE PrintFullTree(self, env, attrs.st, node,
                                indent \o INDENTATION_UNIT,
                                parent_path \o <<"/">> \o name, id, 1) :
                    attrs \in {PrintAttributes(self, env, doc.st, "group",
                                  node, XPath(node, "attribute"),
                                  indent \o INDENTATION_UNIT,
                                  parent_path \o <<"/">> \o name, id)} }) :
                doc \in {PrintDocEnum(
                           PrintIfDeprecated(
                               PrintLine(st2, 638,
                                   indent \o "**" \o StrOf(name) \o "**: "
                                   \o GetRequiredOrOptionalText(self, node)
                                   \o GroupType(node) \o " " \o ref.value
                                   \o "\n", "\n"),
                               node, indent \o INDENTATION_UNIT),
                           indent, node, FALSE)} }) :
            st2 \in {PrintLine(
                        HyperlinkTarget(self, st, parent_path, name, "group",
                                        634, id),
                        637, indent \o TargetText(Target(parent_path, name,
                                                         "group")), "\n")},
            ref \in {GetFirstParentRef(env, parent_path \o <<"/">> \o name,
                                       "group")} }) :
        name \in {GroupName(node)} })

\* the body of the loop over the links
PrintLink(self, env, st, node, indent, parent_path, id) ==
    PrintDocEnum(
        PrintLine(
            PrintLine(
                HyperlinkTarget(self, st, parent_path, node.name, "link",
                                667, id),
                667, indent \o TargetText(Target(parent_path, node.name,
                                                 "link")), "\n"),
            668, indent \o "**" \o StrOf(node.name) \o "**: "
                 \o ":ref:" \o BQ \o "link<Design-Links>" \o BQ \o " "
                 \o "(suggested target: " \o BQ \o BQ
                 \o Get(node.target, "None")
                 \o BQ \o BQ \o ")" \o "\n", "\n"),
        indent, node, FALSE)

\* one of the loops: the children of parent at the positions nodes
PrintNodes(self, env, st, parent, nodes, indent, parent_path, id) ==
    IF Len(nodes) = 0 THEN Ok(st)
    ELSE
    Only({ IF done.kind = "raise" THEN done
           ELSE PrintNodes(self, env, done.st, parent, Tail(nodes), indent,
                           parent_path, id) :
        done \in {
            CASE LocalName(parent.children[nodes[1]].tag) = "field" ->
                   PrintField(self, env, st, parent.children[nodes[1]],
                              indent, parent_path, Append(id, nodes[1]))
              [] LocalName(parent.children[nodes[1]].tag) = "group" ->
                   PrintGroup(self, env, st, parent.children[nodes[1]],
                              indent, parent_path, Append(id, nodes[1]))
              [] LocalName(parent.children[nodes[1]].tag) = "link" ->
                   PrintLink(self, env, st, parent.children[nodes[1]],
                             indent, parent_path, Append(id, nodes[1]))} })

\* _print_full_tree from its loop number k on; the parameter name of the
\* code is assigned in each loop before it is read, and is left out
PrintFullTree(self, env, st, parent, indent, parent_path, id, k) ==
    IF k > Len(TreeLoops) THEN Ok(st)
    ELSE
    Only({ IF done.kind = "raise" THEN done
           ELSE PrintFullTree(self, env, done.st, parent, indent, parent_path,
                              id, k + 1) :
        done \in {PrintNodes(self, env, st, parent,
                             XPath(parent, TreeLoops[k]), indent, parent_path,
                             id)} })

(***************************************************************************)
(* _parse_nxdl_file, _print_anchor_list and __call__.  root is the root    *)
(* element of the document lxml parses from nxdl_file; self is the         *)
(* generator with the fields __call__ and _parse_nxdl_file have set.       *)
(***************************************************************************)
CATEGORY_TO_LISTING ==
    [base |-> "base class", application |-> "application definition"]

\* an entry of self._rst_lines, and the entries of several calls of _print
Printed(at, text, end) == [at |-> at, text |-> text \o end]

PrintAll(st, lines) == [st EXCEPT !.rst_lines = @ \o lines]

\* lines 86 to 103: the comment, the index block and the title
PrintTitle(self, st, nxdl_file, root) ==
    PrintAll(st, <<
        Printed(88, ".. auto-generated by dev_tools.docs.nxdl from the NXDL "
                    \o "source " \o nxdl_file.source \o " -- DO NOT EDIT", "\n"),
        Printed(92, "", "\n"),
        Printed(93, ".. index::", "\n"),
        Printed(94, "    ! " \o StrOf(root.name) \o " ("
                    \o self.listing_category \o ")", "\n"),
        Printed(95, "    ! " \o StrOf(SliceFrom(root.name, 2)) \o " ("
                    \o self.listing_category \o ")", "\n"),
        Printed(96, "    see: " \o StrOf(SliceFrom(root.name, 2)) \o " ("
                    \o self.listing_category \o "); " \o StrOf(root.name),
                "\n"),
        Printed(99, "", "\n"),
        Printed(100, ".. _" \o StrOf(root.name) \o ":\n", "\n"),
        Printed(101, Repeat("=", Len(root.name)), "\n"),
        Printed(102, StrOf(root.name), "\n"),
        Printed(103, Repeat("=", Len(root.name)), "\n") >>)

\* date_str.split("T")[0]
DateOf(date_str) ==
    IF Find(date_str, "T", 0) = -1 THEN date_str
    ELSE SliceTo(date_str, Find(date_str, "T", 0))

\* the loop over the contributors
RECURSIVE PrintContribs(_, _)
PrintContribs(st, contribs) ==
    IF Len(contribs) = 0 THEN st
    ELSE PrintContribs(
            PrintAll(st, <<
                Printed(126, "", "\n"),
                Printed(128, "    .. |contrib_name| replace:: "
                    \o Join(<<contribs[1].name, contribs[1].login,
                              contribs[1].avatar_url,
                              StrOf(DateOf(contribs[1].date))>>, "|"),
                    "\n") >>),
            Tail(contribs))

\* lines 112 to 128
PrintContributors(env, st) ==
    IF env.contribs = NoContribs THEN st
    ELSE PrintContribs(
            PrintAll(st, << Printed(118, "", "\n"), Printed(119, "..", "\n"),
                            Printed(120, "    Contributors List", "\n") >>),
            env.contribs.items)

\* lines 105 to 110
Extends(root) ==
    IF root.extends = None THEN "none"
    ELSE ":ref:" \o BQ \o root.extends \o BQ

\* lines 130 to 139
PrintStatus(self, st, root) ==
    PrintIfDeprecated(
        PrintAll(st, <<
            Printed(130, "", "\n"),
            Printed(131, "**Status**:\n", "\n"),
            IF self.contribution
            THEN Printed(133, "  *" \o self.listing_category
                              \o "* (contribution), extends " \o Extends(root),
                         "\n")
            ELSE Printed(137, "  " \o self.listing_category \o ", extends "
                              \o Extends(root), "\n") >>),
        root, "")

\* the same with required=False
PrintDescriptionMutant(st, root) ==
    PrintDocEnum(
        PrintAll(st, << Printed(142, "", "\n"),
                        Printed(143, "**Description**:\n", "\n") >>),
        "", root, FALSE)

\* lines 141 to 144
PrintDescription(st, root) ==
    PrintDocEnum(
        PrintAll(st, << Printed(142, "", "\n"),
                        Printed(143, "**Description**:\n", "\n") >>),
        "", root, TRUE)

\* the loop over the symbols of the table
RECURSIVE PrintSymbols(_, _)
PrintSymbols(st, symbols) ==
    IF Len(symbols) = 0 THEN Ok(st)
    ELSE
    Only({ IF doc.kind = "raise" THEN Raised(st, doc)
           ELSE PrintSymbols(
                   PrintLine(
                       IF doc.value # ""
                       THEN PrintLine(
                               PrintLine(st, 157, "  **" \o symbols[1].name
                                                  \o "**", ""),
                               159, ": " \o doc.value, "")
                       ELSE PrintLine(st, 157, "  **" \o symbols[1].name
                                               \o "**", ""),
                       160, "\n", "\n"),
                   Tail(symbols)) :
        doc \in {GetDocLine(symbols[1])} })

\* lines 146 to 160
PrintSymbolTable(st, root) ==
    IF Len(root.symbols) = 0
    THEN Ok(PrintLine(PrintLine(st, 148, "**Symbols**:\n", "\n"),
                      150, "  No symbol table\n", "\n"))
    ELSE IF Len(root.symbols) > 1
    THEN Exc(PrintLine(st, 148, "**Symbols**:\n", "\n"),
             "Invalid symbol table in " \o StrOf(root.name))
    ELSE
    Only({ IF doc.kind = "raise" THEN doc
           ELSE PrintSymbols(doc.st, root.symbols[1].symbol) :
        doc \in {PrintDocEnum(PrintLine(st, 148, "**Symbols**:\n", "\n"),
                              "", root.symbols[1], FALSE)} })

\* root.xpath("//nx:group"): the groups of the document, in document order
RECURSIVE AllGroups(_)
AllGroups(children) ==
    IF Len(children) = 0 THEN <<>>
    ELSE (IF LocalName(children[1].tag) = "group" THEN <<children[1]>>
          ELSE <<>>)
         \o AllGroups(children[1].children) \o AllGroups(Tail(children))

\* the loop that collects the types of the groups
RECURSIVE CitedGroups(_, _)
CitedGroups(node_list, groups) ==
    IF Len(node_list) = 0 THEN Return(groups)
    ELSE IF node_list[1].type = NoneChars
    THEN Raise("AttributeError",
               "'NoneType' object has no attribute 'startswith'")
    ELSE CitedGroups(Tail(node_list),
            IF /\ StartsWith(node_list[1].type, NX)
               /\ \A i \in 1..Len(groups) : groups[i] # node_list[1].type
            THEN Append(groups, node_list[1].type) ELSE groups)

\* f":ref:`{g}`"
RefTo(g) == <<":", "r", "e", "f", ":">> \o <<BQ>> \o g \o <<BQ>>

\* lines 173 to 181, for groups not empty
PrintCited(self, st, groups) ==
    Only({
        PrintAll(st, <<
            Printed(175, "  " \o Join([i \in 1..Len(out) |->
                                         StrOf(Sorted(out, out)[i])], ", ")
                         \o "\n", "\n"),
            Printed(181, ".. index:: "
                \o Join([i \in 1..Len(groups) |->
                           StrOf(groups[i]) \o " (base class); used in "
                           \o self.listing_category], ", ")
                \o "\n", "\n") >>) :
        out \in {[i \in 1..Len(groups) |-> RefTo(groups[i])]} })

\* lines 162 to 181
PrintGroupsCited(self, st, root) ==
    Only({ IF groups.kind = "raise"
           THEN Raised(PrintLine(st, 163, "**Groups cited**:", "\n"), groups)
           ELSE IF Len(groups.value) = 0
           THEN Ok(PrintLine(PrintLine(st, 163, "**Groups cited**:", "\n"),
                             171, "  none\n", "\n"))
           ELSE Ok(PrintCited(self,
                              PrintLine(st, 163, "**Groups cited**:", "\n"),
                              groups.value)) :
        groups \in {CitedGroups(AllGroups(root.children), <<>>)} })

\* lines 183 to 192: the attributes of the root, then the tree
PrintStructure(self, env, st, root) ==
    Only({ IF attrs.kind = "raise" THEN attrs
           ELSE PrintFullTree(self, env, attrs.st, root, INDENTATION_UNIT,
                              <<"/">> \o root.name, <<>>, 1) :
        attrs \in {PrintAttributes(self, env,
                      PrintLine(st, 184, "**Structure**:\n", "\n"),
                      "file", root, XPath(root, "attribute"),
                      INDENTATION_UNIT, <<"/">> \o root.name, <<>>)} })

\* the list that _print_anchor_list prints for the anchors flushed
AnchorList(st, anchors) ==
    PrintAll(st, <<
        Printed(214, "", "\n"),
        Printed(215, "Hypertext Anchors", "\n"),
        Printed(216, "-----------------\n", "\n"),
        Printed(217, "List of hypertext anchors for all groups, fields,\n"
                     \o "attributes, and links defined in this class.\n\n",
                "\n"),
        Printed(227, Join([i \in 1..Len(anchors) |->
                             "* :ref:" \o BQ \o StrOf(anchors[i]) \o " <"
                             \o StrOf(anchors[i]) \o ">" \o BQ], "\n"),
                "\n") >>)

PrintAnchorList(self, st) ==
    IF ~self.anchor_registry THEN st
    ELSE IF Len(FlushAnchorBuffer(st.buffer).anchors) = 0
    THEN [st EXCEPT !.buffer = FlushAnchorBuffer(@).buffer]
    ELSE AnchorList(
            [st EXCEPT !.buffer = FlushAnchorBuffer(@).buffer],
            Sorted(FlushAnchorBuffer(st.buffer).anchors,
                   [i \in 1..Len(FlushAnchorBuffer(st.buffer).anchors) |->
                      LowerChars(FlushAnchorBuffer(st.buffer).anchors[i])]))

\* lines 196 to 202
PrintSource(st, nxdl_file) ==
    PrintAll(st, <<
        Printed(197, "", "\n"),
        Printed(198, "**NXDL Source**:", "\n"),
        Printed(202, "  " \o REPO_URL \o "/" \o nxdl_file.source, "\n") >>)

\* _parse_nxdl_file from line 86 on
PrintDocument(self, env, st, nxdl_file, root) ==
    Only({
        IF description.kind = "raise" THEN description
        ELSE
        Only({
            IF symbols.kind = "raise" THEN symbols
            ELSE
            Only({
                IF cited.kind = "raise" THEN cited
                ELSE
                Only({
                    IF tree.kind = "raise" THEN tree
                    ELSE Ok(PrintSource(PrintAnchorList(self, tree.st),
                                        nxdl_file)) :
                    tree \in {PrintStructure(self, env, cited.st, root)} }) :
                cited \in {PrintGroupsCited(self, symbols.st, root)} }) :
            symbols \in {PrintSymbolTable(description.st, root)} }) :
        description \in
            {PrintDescription(
                PrintStatus(self,
                    PrintContributors(env,
                        PrintTitle(self, st, nxdl_file, root)),
                    root),
                root)} })

ParseNxdlFile(anchor_registry, env, st, nxdl_file, root) ==
    IF ~nxdl_file.is_file THEN Raised(st, Raise("AssertionError", ""))
    ELSE IF root.category = None
    THEN Raised(st, Raise("KeyError", "category"))
    ELSE IF root.name = NoneChars
    THEN Raised(st, Raise("TypeError",
                          "can only concatenate str (not NoneType) to str"))
    ELSE IF Len(root.name) < 2 \/ Slice(root.name, 0, 2) # NX
    THEN Exc(st, "Unexpected class name \"" \o StrOf(root.name)
                 \o "\"; does not start with NX")
    ELSE IF root.category \notin DOMAIN CATEGORY_TO_LISTING
    THEN Raised(st, Raise("KeyError", root.category))
    ELSE PrintDocument(
            [listing_category |-> CATEGORY_TO_LISTING[root.category],
             use_application_defaults |-> root.category = "application",
             contribution |-> nxdl_file.parent = "contributed_definitions",
             anchor_registry |-> anchor_registry],
            env, st, nxdl_file, root)

\* except Exception: raise NXDLParseError(nxdl_file)
ExceptExceptionMutant(r, nxdl_file) == r

ExceptException(r, nxdl_file) ==
    IF r.kind = "raise"
    THEN [r EXCEPT !.exc = "NXDLParseError", !.msg = nxdl_file]
    ELSE r

\* what the caller of __call__ gets when _parse_nxdl_file ended as inner and
\* the try statement as r, and with it the generator's _rst_lines, the calls
\* of _hyperlink_target and the registry's buffer after the call.  The
\* exception raised carries the one it was raised for as its __context__.
Outcome(inner, r) ==
    IF r.kind = "raise"
    THEN [kind |-> "raise", exc |-> r.exc, msg |-> r.msg,
          context |-> [exc |-> inner.exc, msg |-> inner.msg],
          rst_lines |-> r.st.rst_lines, anchors |-> r.st.anchors,
          buffer |-> r.st.buffer]
    ELSE [kind |-> "return", value |-> r.st.rst_lines,
          rst_lines |-> r.st.rst_lines, anchors |-> r.st.anchors,
          buffer |-> r.st.buffer]

\* __call__ on a generator whose registry, if it has one, holds buffer
CallWith(buffer, nxdl_file, anchor_registry, env, root) ==
    Only({ Outcome(inner, ExceptException(inner, nxdl_file)) :
        inner \in {ParseNxdlFile(anchor_registry, env,
                                 [EmptyState EXCEPT !.buffer = buffer],
                                 nxdl_file, root)} })

\* __call__ with a registry that is new, or with none
Call(nxdl_file, anchor_registry, env, root) ==
    CallWith(<<>>, nxdl_file, anchor_registry, env, root)

(***************************************************************************)
(* The specification of a render: the generator is called on a document    *)
(* of the model.                                                           *)
(***************************************************************************)
\* most children of the root, or of the one group of the root
MaxChildren == 3

\* most groups nested in one another
MaxNested == 2

\* an element with the attributes and children given, and no others
Element(tag, name, type, docs, children) ==
    [tag |-> <<NXDL_NAMESPACE, tag>>, name |-> name, type |-> type,
     units |-> NoneChars, deprecated |-> None, target |-> None,
     optional |-> None, recommended |-> None, minOccurs |-> None,
     docs |-> docs, enumerations |-> <<>>, dimensions |-> <<>>,
     children |-> children]

NXa == <<"N", "X", "a">>

NXd == <<"N", "X", "d">>

AttributeA == Element("attribute", <<"a">>, NoneChars, <<>>, <<>>)

FieldA == Element("field", <<"a">>, NoneChars, <<>>, <<>>)

\* a field with units and an attribute
FieldB ==
    [Element("field", <<"b">>, <<"N", "X", "_", "I", "N", "T">>, <<>>,
             <<AttributeA>>) EXCEPT !.units = <<"N", "X", "_", "A", "N", "Y">>]

LinkA ==
    [Element("link", <<"a">>, NoneChars, <<>>, <<>>) EXCEPT !.target = "/x"]

\* <group type="NXd"/>
GroupD == Element("group", NoneChars, NXd, <<>>, <<>>)

\* a group with a field
GroupF == Element("group", <<"g">>, NXd, <<>>, <<FieldA>>)

\* a group of n groups nested in one another, its children out of order
RECURSIVE Nested(_)
Nested(n) ==
    IF n = 0 THEN GroupD
    ELSE Element("group", <<"g">>, NXd, <<>>,
                 <<LinkA, Nested(n - 1), AttributeA, FieldB>>)

\* the groups without name of type NXd, of at most n children
Groups(n) ==
    {Element("group", NoneChars, NXd, <<>>, c) :
        c \in SeqsUpTo({FieldA, AttributeA, LinkA, GroupD, GroupF}, n)}

\* a root element
Root(name, category, docs, symbols, children) ==
    [name |-> name, category |-> category, extends |-> None,
     deprecated |-> None, docs |-> docs, enumerations |-> <<>>,
     symbols |-> symbols, children |-> children]

\* documents by their structure: any children of the root, in any order,
\* and any children of its one group
StructureRoots ==
    {Root(NXa, "base", <<OneLineDoc>>, <<>>, c) :
        c \in SeqsUpTo({FieldA, FieldB, AttributeA, LinkA}
                       \cup {Nested(n) : n \in 0 .. MaxNested},
                       MaxChildren)}
    \cup {Root(NXa, "base", <<OneLineDoc>>, <<>>, <<g>>) :
            g \in Groups(MaxChildren)}

\* documents by the names and types of one or two groups of the root
NamedGroups ==
    {Element("group", n, t, <<>>, <<>>) :
        n \in {NoneChars, <<"D">>, <<"d">>},
        t \in {NXd, <<"N", "X", "X", "d">>, <<"n", "x", "d">>}}

NamesRoots ==
    {Root(NXa, "application", <<OneLineDoc>>, <<>>, c) :
        c \in SeqsUpTo(NamedGroups, 2)}

\* a <doc> whose second line is indented less than its first
BadIndentationDoc ==
    << [lead |-> 0, body |-> ""], [lead |-> 4, body |-> "Text"],
       [lead |-> 2, body |-> "Text"], [lead |-> 0, body |-> ""] >>

Symbol(docs) == [name |-> "n", docs |-> docs]

SymbolTable(symbol) ==
    [name |-> NoneChars, docs |-> <<OneLineDoc>>, enumerations |-> <<>>,
     symbol |-> symbol]

SymbolsValues ==
    { <<>>,
      <<SymbolTable(<<Symbol(<<OneLineDoc>>), Symbol(<<>>)>>)>>,
      <<SymbolTable(<<>>), SymbolTable(<<>>)>>,
      <<[SymbolTable(<<Symbol(<<>>)>>) EXCEPT !.docs = <<>>]>>,
      <<SymbolTable(<<Symbol(<<OneLineDoc, OneLineDoc>>)>>)>> }

Dim(index, value, required) ==
    [index |-> index, value |-> value, ref |-> None, required |-> required]

\* the fields of the documents that may fail
FieldValues ==
    { FieldA,
      [FieldA EXCEPT !.docs = <<TwoLineDoc>>, !.deprecated = "use b"],
      [FieldA EXCEPT !.docs = <<OneLineDoc, OneLineDoc>>],
      [FieldA EXCEPT !.docs = <<BadIndentationDoc>>],
      [FieldA EXCEPT !.dimensions =
          << [rank |-> "1", dims |-> <<Dim("1", "n", None)>>] >>],
      [FieldA EXCEPT !.dimensions =
          << [rank |-> None, dims |-> <<Dim("0", "n", None)>>] >>],
      [FieldA EXCEPT !.dimensions =
          << [rank |-> None,
              dims |-> <<Dim("1", "n", "false"), Dim("2", "m", None)>>] >>],
      [FieldA EXCEPT !.enumerations =
          << [items |-> << [value |-> "a", docs |-> <<TwoBlockDoc>>] >>] >>] }

\* the groups of the documents that may fail
GroupValues ==
    { Element("group", NoneChars, NXd, <<OneLineDoc>>, <<FieldA>>),
      Element("group", NoneChars, NoneChars, <<>>, <<>>),
      Element("group", NoneChars, NXd, <<>>,
              <<Element("group", <<"g">>, NoneChars, <<>>, <<>>)>>),
      Element("group", <<"g">>, NXd, <<OneLineDoc, OneLineDoc>>, <<>>),
      Element("group", <<"g">>, NXd, <<>>,
              <<[AttributeA EXCEPT !.docs = <<OneLineDoc, OneLineDoc>>],
                [LinkA EXCEPT !.docs = <<BadIndentationDoc>>]>>) }

\* documents that may fail in one place or in several
FailureRoots ==
    {Root(n, "base", d, s, <<f, g>>) :
        n \in {NoneChars, <<"N">>, <<"n", "x", "a">>, NX, NXa},
        d \in {<<>>, <<OneLineDoc>>, <<OneLineDoc, OneLineDoc>>,
               <<BadIndentationDoc>>},
        s \in SymbolsValues, f \in FieldValues, g \in GroupValues}

\* what the resolver answers: the class is not found, or the parents
Parent(nxdlpath, name) ==
    [nxdlpath |-> nxdlpath,
     nxdlbase |-> <<"b", "/", "N", "X">> \o name
                  \o <<".", "n", "x", "d", "l", ".", "x", "m", "l">>]

Found(parents) == [found |-> TRUE, parents |-> parents]

Self == Parent(<<"/", "a">>, <<"a">>)

ResolverValues ==
    { [found |-> FALSE, parents |-> <<>>], Found(<<>>), Found(<<Self>>),
      Found(<<Self, Parent(<<"/">>, <<"b">>)>>),
      Found(<<Self, Parent(<<"/", "t", "y", "p", "e">>,
                           <<"n", "o", "t", "e">>)>>),
      Found(<<Self, Parent(<<"/", "B", "/", "a">>, <<"b">>)>>),
      Found(<<Self, Parent(<<"a">>, <<"b">>)>>) }

\* what the contributors look-up answers
ContribsValues ==
    { NoContribs, Contribs(<<>>),
      Contribs(<< [date |-> <<"2", "0", "2", "0", "T", "0", "3">>,
                   name |-> "n", login |-> "l", avatar_url |-> "u"] >>) }

NoContext == [resolver |-> Found(<<>>), contribs |-> NoContribs]

NxdlFile(is_file, parent) ==
    [is_file |-> is_file, parent |-> parent,
     source |-> parent \o "/NXa.nxdl.xml"]

\* documents by what surrounds them
ContextCalls ==
    {[fn |-> "__call__", nxdl_file |-> NxdlFile(i, p), anchor_registry |-> a,
      env |-> [resolver |-> r, contribs |-> c],
      root |-> [Root(NXa, k, <<OneLineDoc>>, <<>>,
                     <<AttributeA, FieldB, GroupD>>)
                  EXCEPT !.extends = e,
                         !.deprecated = IF e = None THEN None ELSE "old"]] :
        i \in BOOLEAN, p \in {"base_classes", "contributed_definitions"},
        a \in BOOLEAN, r \in ResolverValues, c \in ContribsValues,
        k \in {None, "base", "application", "test"},
        e \in {None, "NXobject"}}

RenderCalls ==
    {[fn |-> "__call__", nxdl_file |-> NxdlFile(TRUE, "base_classes"),
      anchor_registry |-> a, env |-> NoContext, root |-> r] :
        a \in BOOLEAN, r \in NamesRoots}
    \cup {[fn |-> "__call__", nxdl_file |-> NxdlFile(TRUE, "base_classes"),
           anchor_registry |-> TRUE, env |-> NoContext, root |-> r] :
            r \in StructureRoots \cup FailureRoots}
    \cup ContextCalls

InitRender ==
    /\ call \in RenderCalls
    /\ ret = NotCalled

CallGenerator ==
    /\ call.fn = "__call__"
    /\ ret = NotCalled
    /\ ret' = Call(call.nxdl_file, call.anchor_registry, call.env, call.root)
    /\ UNCHANGED call

NextRender == CallGenerator

SpecRender == InitRender /\ [][NextRender]_vars

(***************************************************************************)
(* The claim about the required/optional classifier.                       *)
(***************************************************************************)
Classified == call.fn = "_get_required_or_optional_text" /\ ret # NotCalled

\* C2: for every field, group and attribute, in a base class and in an
\* application definition, a node that carries no optional, recommended or
\* minOccurs attribute gets the label of the category (base class: optional,
\* application definition: required); with optional="true" and no recommended
\* attribute the label is "(optional)"; with optional="false" and neither a
\* recommended nor a minOccurs attribute the label is "(required)".
C2_ExplicitOptionalOverridesDefault ==
    ( /\ Classified
      /\ call.node.tag[2] \in {"field", "group", "attribute"}
      /\ call.node.recommended = None )
    => /\ (call.node.optional = None /\ call.node.minOccurs = None)
            => ret.value = IF call.self.use_application_defaults
                           THEN "(required) " ELSE "(optional) "
       /\ call.node.optional = "true" => ret.value = "(optional) "
       /\ (call.node.optional = "false" /\ call.node.minOccurs = None)
            => ret.value = "(required) "

(***************************************************************************)
(* The claims about the dimension resolver.                                *)
(***************************************************************************)
\* _analyze_dimensions has run on a field with exactly one <dimensions>
DimsAnalyzed ==
    /\ call.fn = "_analyze_dimensions"
    /\ ret # NotCalled
    /\ Len(call.parent.dimensions) = 1

\* the <dim> entries handed to the resolver, and the declared rank
Entries == call.parent.dimensions[1].dims

DeclaredRank == call.parent.dimensions[1].rank

CarriesRef(e) == e.ref \notin {None, ""}

CarriesValue(e) == e.value \notin {None, ""}

HasValidIndex(e) == e.index \in {"1", "2", "3", "4", "5", "6", "7", "8", "9"}

MarkedOptional(e) == e.required \in {"false", "False", "FALSE"}

SameAsField(r) ==
    Return(" (Rank: same as field " \o r \o ", Dimensions: same as field "
           \o r \o ")")

OrderingError ==
    Raise("RuntimeError",
          "A required dimension cannot come after an optional dimension")

\* entry k is not marked optional and follows an entry that is
RequiredAfterOptional(l, k) ==
    ~MarkedOptional(l[k]) /\ \E j \in 1..(k - 1) : MarkedOptional(l[j])

\* C3, as stated: whenever some entry carries a reference to another field,
\* the resolver returns "same rank and dimensions as field <ref>" for one of
\* the referencing entries, whatever else the list holds.
C3_AnyRefShortCircuits ==
    (DimsAnalyzed /\ \E i \in 1..Len(Entries) : CarriesRef(Entries[i]))
    => \E i \in 1..Len(Entries) :
          CarriesRef(Entries[i]) /\ ret = SameAsField(Entries[i].ref)

\* C3, amended: the first entry that carries a reference and no value ends
\* the analysis with "same rank and dimensions as field <ref>" of that entry,
\* provided every entry up to and including it has a positive index and no
\* entry before it is a non-optional entry after an optional one; the later
\* entries, the declared rank and that entry's own required flag play no part.
C3_FirstValuelessRefShortCircuits ==
    DimsAnalyzed =>
        \A i \in 1..Len(Entries) :
            ( /\ CarriesRef(Entries[i]) /\ ~CarriesValue(Entries[i])
              /\ \A j \in 1..(i - 1) :
                    ~(CarriesRef(Entries[j]) /\ ~CarriesValue(Entries[j]))
              /\ \A j \in 1..i : HasValidIndex(Entries[j])
              /\ \A j \in 1..(i - 1) : ~RequiredAfterOptional(Entries, j) )
            => ret = SameAsField(Entries[i].ref)

\* a reference in the middle of a list wins over an optional entry before it
\* that has a value and a reference, and over a required entry after it
C3_Witness ==
    /\ DimsAnalyzed
    /\ Len(Entries) >= 3
    /\ CarriesRef(Entries[1]) /\ CarriesValue(Entries[1])
    /\ MarkedOptional(Entries[1])
    /\ CarriesRef(Entries[2]) /\ ~CarriesValue(Entries[2])
    /\ ~MarkedOptional(Entries[2])
    /\ RequiredAfterOptional(Entries, 3)
    /\ ret = SameAsField(Entries[2].ref)

\* the list of C4: (1,a), (2,b), (3,c), then (4,d) with required="false"
C4_Entries ==
    << [index |-> "1", value |-> "a", ref |-> None, required |-> None],
       [index |-> "2", value |-> "b", ref |-> None, required |-> None],
       [index |-> "3", value |-> "c", ref |-> None, required |-> None],
       [index |-> "4", value |-> "d", ref |-> None, required |-> "false"] >>

C4_Case == DimsAnalyzed /\ DeclaredRank = None /\ Entries = C4_Entries

\* C4, as stated: with no declared rank that list yields rank 3 and the
\* dimensions [a, b, c, [d]].
C4_RankFromRequiredPrefix ==
    C4_Case => ret = Return(" (Rank: 3, Dimensions: [a, b, c, [d]])")

\* C4, amended: with no declared rank that list yields the dimensions
\* [a, b, c, [d]] and no rank: no rank is inferred once a dimension is
\* optional.
C4_NoRankWithOptional ==
    C4_Case => ret = Return(" (Dimensions: [a, b, c, [d]])")

C4_Witness == C4_Case /\ ret.kind = "return"

\* C5, as stated: with valid indices throughout, an entry marked optional
\* followed by one that is not always fails with the ordering error.
C5_RequiredAfterOptionalFails ==
    ( /\ DimsAnalyzed
      /\ \A j \in 1..Len(Entries) : HasValidIndex(Entries[j])
      /\ \E k \in 1..Len(Entries) : RequiredAfterOptional(Entries, k) )
    => ret = OrderingError

\* C5, amended: with valid indices throughout, the resolver fails with the
\* ordering error when an entry marked optional is followed by one that is
\* not, provided no entry up to and including the first such follower carries
\* a reference without a value (that entry ends the analysis first).
C5_RequiredAfterOptionalFailsUnlessRef ==
    DimsAnalyzed =>
        \A k \in 1..Len(Entries) :
            ( /\ \A j \in 1..Len(Entries) : HasValidIndex(Entries[j])
              /\ RequiredAfterOptional(Entries, k)
              /\ \A j \in 1..(k - 1) : ~RequiredAfterOptional(Entries, j)
              /\ \A j \in 1..k :
                    ~(CarriesRef(Entries[j]) /\ ~CarriesValue(Entries[j])) )
            => ret = OrderingError

\* the ordering error, raised although a later entry refers to another field
C5_Witness ==
    /\ DimsAnalyzed
    /\ Len(Entries) >= 3
    /\ \A j \in 1..Len(Entries) : HasValidIndex(Entries[j])
    /\ MarkedOptional(Entries[1])
    /\ RequiredAfterOptional(Entries, 2)
    /\ CarriesRef(Entries[2]) /\ CarriesValue(Entries[2])
    /\ CarriesRef(Entries[3]) /\ ~CarriesValue(Entries[3])
    /\ ret = OrderingError


(***************************************************************************)
(* The claims about the documentation and enumeration printers.            *)
(***************************************************************************)
\* _print_doc_enum has rendered the node without raising
DocEnumPrinted ==
    call.fn = "_print_doc_enum" /\ ret # NotCalled /\ ret.kind = "ok"

\* the lines of the node's <doc> that hold text
TextLines(node) ==
    IF Len(node.docs) = 0 THEN {}
    ELSE {i \in 1..Len(node.docs[1]) : node.docs[1][i].body # ""}

\* its paragraphs: the runs of such lines between lines of white space
Paragraphs(node) ==
    {i \in TextLines(node) : i = 1 \/ (i - 1) \notin TextLines(node)}

\* the ".. collapse::" directive was printed
Collapsed == \E i \in 1..Len(ret.st.rst_lines) : ret.st.rst_lines[i].at = 556

\* C9, as stated, its second sentence: a rendered node whose documentation
\* is a single paragraph, of any number of lines, and that has no
\* enumeration is rendered without the collapsible block.  (The first
\* sentence has the block exactly when the documentation spans more than one
\* paragraph or the node has both documentation and an enumeration.)
C9_SingleParagraphNotCollapsed ==
    ( /\ DocEnumPrinted
      /\ Cardinality(Paragraphs(call.node)) = 1
      /\ call.node.enumerations = <<>> )
    => ~Collapsed

\* the documentation lines the block extractor finds in the node
ExtractedLines(node) == Concat(GetDocBlocks(node).value)

\* C9, amended: a rendered node's documentation is wrapped in the
\* collapsible block exactly when the number of documentation lines the
\* block extractor returns for it, over all paragraph blocks, plus the
\* number of the node's enumeration elements exceeds one: documentation of
\* two or more lines is wrapped even when it is a single paragraph, and
\* documentation of one line only together with an enumeration.
C9_CollapsedIffLinesPlusEnumsExceedOne ==
    DocEnumPrinted =>
        ( Collapsed <=>
            Len(ExtractedLines(call.node)) + Len(call.node.enumerations) > 1 )

\* a single paragraph of two lines and no enumeration, collapsed
C9_Witness ==
    /\ DocEnumPrinted
    /\ Cardinality(Paragraphs(call.node)) = 1
    /\ Cardinality(TextLines(call.node)) = 2
    /\ call.node.enumerations = <<>>
    /\ Collapsed

EnumerationCalled ==
    /\ call.fn = "_print_enumeration"
    /\ ret # NotCalled
    /\ Len(call.parent.items) >= 1

TheItems == call.parent.items

\* the item has doc text of its own
HasDocText(item) ==
    \E d \in 1..Len(item.docs) : \E i \in 1..Len(item.docs[d]) :
        item.docs[d][i].body # ""

Quoted(v) == "''" \o v \o "''"

RECURSIVE JoinedValues(_)
\* the values, each literal-quoted, joined by " | "
JoinedValues(items) ==
    IF Len(items) = 1 THEN Quoted(items[1].value)
    ELSE Quoted(items[1].value) \o " | " \o JoinedValues(Tail(items))

RECURSIVE Bullets(_, _)
\* one bulleted line per item, its doc appended, each ended by a blank line
Bullets(indent, items) ==
    IF Len(items) = 0 THEN <<>>
    ELSE <<indent \o "  * " \o Quoted(items[1].value)>>
         \o (IF HasDocText(items[1])
             THEN <<": " \o GetDocLine(items[1]).value>> ELSE <<>>)
         \o <<"\n\n">>
         \o Bullets(indent, Tail(items))

\* the enumeration as C10 has it rendered
RenderedEnumeration(indent, items) ==
    << indent \o (IF Len(items) = 1 THEN "Obligatory value:"
                  ELSE "Any of these values:") >>
    \o (IF (\A k \in 1..Len(items) : ~HasDocText(items[k]))
           /\ Len(JoinedValues(items)) <= 60
        THEN <<" " \o JoinedValues(items) \o "\n">>
        ELSE <<"\n\n">> \o Bullets(indent, items))
    \o <<"\n">>

PrintedTexts == [i \in 1..Len(ret.st.rst_lines) |-> ret.st.rst_lines[i].text]

\* C10, as stated: every enumeration with at least one item is rendered,
\* labelled by the number of its items, inline exactly when no item has doc
\* text and the joined line has at most 60 characters, else one bulleted
\* line per item with its doc appended.
C10_EnumerationLayout ==
    EnumerationCalled =>
        /\ ret.kind = "ok"
        /\ PrintedTexts = RenderedEnumeration(call.indent, TheItems)

\* the items whose documentation reads as one line, their values distinct
WellFormedItems(items) ==
    /\ \A k \in 1..Len(items) : GetDocLine(items[k]).kind = "return"
    /\ \A k, m \in 1..Len(items) : items[k].value = items[m].value => k = m

\* C10, amended: the same, for every enumeration with at least one item
\* whose item values are pairwise distinct and whose items each have no
\* documentation or documentation of a single well-formed paragraph.
C10_EnumerationLayoutOfDistinctValues ==
    (EnumerationCalled /\ WellFormedItems(TheItems)) =>
        /\ ret.kind = "ok"
        /\ PrintedTexts = RenderedEnumeration(call.indent, TheItems)

\* two values whose joined line has exactly 60 characters, rendered inline
C10_Witness ==
    /\ EnumerationCalled /\ WellFormedItems(TheItems)
    /\ Len(TheItems) = 2
    /\ Len(JoinedValues(TheItems)) = 60
    /\ \A k \in 1..2 : ~HasDocText(TheItems[k])
    /\ ret.kind = "ok"
    /\ \E i \in 1..Len(ret.st.rst_lines) : ret.st.rst_lines[i].at = 518

(***************************************************************************)
(* The claims about the render of a document.                              *)
(***************************************************************************)
\* the generator has been called on a document
Rendered == call.fn = "__call__" /\ ret # NotCalled

\* the children of parent that carry one of the tags
Children(parent, tags) ==
    {parent.children[i] :
        i \in {k \in 1..Len(parent.children) :
                 LocalName(parent.children[k].tag) \in tags}}

\* the nodes that the traversal of the structure below parent comes to: the
\* fields, groups and links, the attributes of the fields and of the groups,
\* and what it comes to below the groups
RECURSIVE Traversed(_)
Traversed(parent) ==
    Children(parent, {"field", "group", "link"})
    \cup UNION {Children(c, {"attribute"}) :
                  c \in Children(parent, {"field", "group"})}
    \cup UNION {Traversed(g) : g \in Children(parent, {"group"})}

\* the Structural Nodes of a document
StructuralNodes(root) == Children(root, {"attribute"}) \cup Traversed(root)

\* the <symbols> tables of a document and their <symbol> entries
SymbolTables(root) == {root.symbols[i] : i \in 1..Len(root.symbols)}

SymbolEntries(root) ==
    UNION {{t.symbol[i] : i \in 1..Len(t.symbol)} : t \in SymbolTables(root)}

\* a single <doc> that the reader of the documentation rejects
BadIndentation(node) ==
    Len(node.docs) = 1 /\ GetDocBlocks(node).kind = "raise"

\* the failures of a render by their cause in the document
NameWithoutPrefix(root) == ~StartsWith(root.name, NX)

ManySymbolTables(root) == Len(root.symbols) > 1

ManyDocs(root, nodes) ==
    \/ Len(root.docs) > 1
    \/ \E n \in nodes : Len(n.docs) > 1
    \/ \E t \in SymbolTables(root) : Len(t.docs) > 1
    \/ \E s \in SymbolEntries(root) : Len(s.docs) > 1

UntypedGroup(groups) == \E i \in 1..Len(groups) : groups[i].type = NoneChars

MalformedDimensions(nodes) ==
    \E f \in nodes :
        LocalName(f.tag) = "field" /\ AnalyzeDimensions(f).kind = "raise"

BadDocIndentation(root, nodes) ==
    \/ BadIndentation(root)
    \/ \E n \in nodes : BadIndentation(n)
    \/ \E t \in SymbolTables(root) : BadIndentation(t)
    \/ \E s \in SymbolEntries(root) : BadIndentation(s)

MissingRootDoc(root) == Len(root.docs) = 0

\* a step of the render of the document fails, nodes its Structural Nodes
StepFails(root, nodes) ==
    \/ NameWithoutPrefix(root)
    \/ ManySymbolTables(root)
    \/ ManyDocs(root, nodes)
    \/ UntypedGroup(AllGroups(root.children))
    \/ MalformedDimensions(nodes)
    \/ BadDocIndentation(root, nodes)
    \/ MissingRootDoc(root)

SomeStepFails(root) == StepFails(root, StructuralNodes(root))

\* the call raised the parse error of the file it was given, and handed no
\* list of lines to its caller
IsParseError ==
    /\ ret.kind = "raise"
    /\ ret.exc = "NXDLParseError"
    /\ ret.msg = call.nxdl_file
    /\ "value" \notin DOMAIN ret

\* C1: for every document, a render in which a step fails (class name
\* without the NX prefix, more than one symbol table, more than one doc
\* element on a node, untyped group, malformed dimensions, bad doc
\* indentation, missing root documentation) raises the parse error that
\* carries the source file, and every call that raises raises that error and
\* returns no list of lines.
C1_FailedRenderRaisesParseError ==
    Rendered =>
        /\ SomeStepFails(call.root) => IsParseError
        /\ ret.kind = "raise" => IsParseError

\* a render that fails in the tree, after it has printed anchors
C1_Witness ==
    /\ Rendered
    /\ call.nxdl_file.is_file
    /\ ManyDocs(call.root, StructuralNodes(call.root))
    /\ ~MissingRootDoc(call.root)
    /\ IsParseError
    /\ Len(ret.anchors) > 0
    /\ Len(ret.rst_lines) > 0

\* the render of the document has returned its lines
Returned == Rendered /\ ret.kind = "return"

\* C6: within one render, no two rendered Structural Nodes (fields, groups,
\* attributes, links, at any depth, groups without a name included) are
\* given the same anchor.
C6_AnchorsUnique ==
    Returned =>
        \A i, j \in 1..Len(ret.anchors) :
            ret.anchors[i].target = ret.anchors[j].target => i = j

\* the sequences of a sequence, one after the other
RECURSIVE Flat(_)
Flat(seqs) == IF Len(seqs) = 0 THEN <<>> ELSE seqs[1] \o Flat(Tail(seqs))

\* the attributes of the node id, in document order
AttributeIds(node, id) ==
    [k \in 1..Len(XPath(node, "attribute")) |->
        Append(id, XPath(node, "attribute")[k])]

\* a field or a group, then its attributes
WithAttributes(node, id) == <<id>> \o AttributeIds(node, id)

\* the nodes below parent in the order of the claim: at each level the
\* fields, each with its attributes, then the groups, each with its
\* attributes and then its own level, then the links
RECURSIVE LevelOrder(_, _)
LevelOrder(parent, id) ==
    Flat([k \in 1..Len(XPath(parent, "field")) |->
            WithAttributes(parent.children[XPath(parent, "field")[k]],
                           Append(id, XPath(parent, "field")[k]))])
    \o Flat([k \in 1..Len(XPath(parent, "group")) |->
               WithAttributes(parent.children[XPath(parent, "group")[k]],
                              Append(id, XPath(parent, "group")[k]))
               \o LevelOrder(parent.children[XPath(parent, "group")[k]],
                             Append(id, XPath(parent, "group")[k]))])
    \o [k \in 1..Len(XPath(parent, "link")) |->
          Append(id, XPath(parent, "link")[k])]

\* all the attributes of the root first
DocumentOrder(root) == AttributeIds(root, <<>>) \o LevelOrder(root, <<>>)

IsPrefix(s, t) == Len(s) <= Len(t) /\ s = SubSeq(t, 1, Len(s))

\* the lines of _print_attribute and _print_full_tree that print an anchor,
\* an index entry and a summary
AnchorAt ==
    [attribute |-> 568, field |-> 599, group |-> 637, link |-> 667]

IndexAt == [attribute |-> 571, field |-> 600]

SummaryAt ==
    [attribute |-> 572, field |-> 601, group |-> 638, link |-> 668]

\* the positions in lines of the anchor declarations
AnchorLines(lines) ==
    SelectSeq([i \in 1..Len(lines) |-> i],
              LAMBDA i : \E t \in DOMAIN AnchorAt : lines[i].at = AnchorAt[t])

\* the anchor a is declared by the line k
Declared(lines, k, a) ==
    /\ k <= Len(lines)
    /\ lines[k].at = AnchorAt[a.nxtype]
    /\ lines[k].text = Spaces(2 * Len(a.node)) \o ".. _" \o StrOf(a.target)
                       \o ":\n" \o "\n"

\* the anchors requested are declared in the lines, in the order of the
\* requests, and each is in the registry when there is one
EmittedInOrder(lines, at, anchors, anchor_registry) ==
    /\ Len(at) = Len(anchors)
    /\ \A n \in 1..Len(anchors) :
        /\ Declared(lines, at[n], anchors[n])
        /\ anchors[n].registered = anchor_registry

\* C7: the nodes of every document tree are emitted, and their anchors
\* registered, in this order: the attributes of the root; then at each level
\* every field, each followed by its own attributes, then every group, each
\* followed by its own attributes and then by its children in the same
\* order, then every link.  A render that fails has emitted a prefix of that
\* order.
C7_EmissionOrder ==
    Rendered =>
        /\ IsPrefix([n \in 1..Len(ret.anchors) |-> ret.anchors[n].node],
                    DocumentOrder(call.root))
        /\ ret.kind = "return" =>
              Len(ret.anchors) = Len(DocumentOrder(call.root))
        /\ EmittedInOrder(ret.rst_lines, AnchorLines(ret.rst_lines),
                          ret.anchors, call.anchor_registry)

\* a document whose children are not in the order of the traversal, at two
\* levels: a link, then a group whose children are a link, a group, an
\* attribute and a field, then a field with an attribute
C7_Witness ==
    /\ Returned
    /\ call.anchor_registry
    /\ Len(call.root.children) = 3
    /\ LocalName(call.root.children[1].tag) = "link"
    /\ LocalName(call.root.children[2].tag) = "group"
    /\ Len(call.root.children[2].children) = 4
    /\ LocalName(call.root.children[3].tag) = "field"
    /\ Len(call.root.children[3].children) = 1
    /\ Len(ret.anchors) = 9
    /\ [n \in 1..9 |-> ret.anchors[n].node]
         = << <<3>>, <<3, 1>>, <<2>>, <<2, 3>>, <<2, 4>>, <<2, 4, 1>>,
              <<2, 2>>, <<2, 1>>, <<1>> >>

\* the node of the document at the positions id
RECURSIVE NodeAt(_, _)
NodeAt(parent, id) ==
    IF Len(id) = 1 THEN parent.children[id[1]]
    ELSE NodeAt(parent.children[id[1]], Tail(id))

\* what the index entry of the node of the anchor a says the node is
What(root, a) ==
    IF a.nxtype # "attribute" THEN a.nxtype
    ELSE IF Len(a.node) = 1 THEN "file attribute"
    ELSE LocalName(NodeAt(root, SubSeq(a.node, 1, Len(a.node) - 1)).tag)
         \o " attribute"

\* the text of the index entry of the node of the anchor a
IndexText(root, a) ==
    Spaces(2 * Len(a.node)) \o ".. index:: " \o StrOf(a.name) \o " ("
    \o What(root, a) \o ")\n" \o "\n"

\* the line k is the index entry of the node of the anchor a
Indexed(lines, k, root, a) ==
    /\ k <= Len(lines)
    /\ a.nxtype \in DOMAIN IndexAt
    /\ lines[k].at = IndexAt[a.nxtype]
    /\ lines[k].text = IndexText(root, a)

\* the line k is the summary line of the node of the anchor a
Summarised(lines, k, a) ==
    /\ k <= Len(lines)
    /\ lines[k].at = SummaryAt[a.nxtype]

\* anchor declaration, index entry and summary line, one after the other
AnchorIndexSummary(lines, k, root, a) ==
    /\ Declared(lines, k, a)
    /\ Indexed(lines, k + 1, root, a)
    /\ Summarised(lines, k + 2, a)

\* anchor declaration and summary line, one after the other, and no index
\* entry of the node anywhere
AnchorSummary(lines, k, root, a) ==
    /\ Declared(lines, k, a)
    /\ Summarised(lines, k + 1, a)
    /\ \A m \in 1..Len(lines) : lines[m].text # IndexText(root, a)

AllAnchorIndexSummary(lines, at, root, anchors) ==
    /\ Len(at) = Len(anchors)
    /\ \A n \in 1..Len(anchors) :
        AnchorIndexSummary(lines, at[n], root, anchors[n])

ByKind(lines, at, root, anchors) ==
    /\ Len(at) = Len(anchors)
    /\ \A n \in 1..Len(anchors) :
        IF anchors[n].nxtype \in {"field", "attribute"}
        THEN AnchorIndexSummary(lines, at[n], root, anchors[n])
        ELSE AnchorSummary(lines, at[n], root, anchors[n])

\* C8: every emitted Structural Node, of each of the four kinds (field,
\* group, attribute, link), is rendered with an anchor declaration, an index
\* entry and a summary line, in that order.
C8_AnchorIndexSummary ==
    Returned =>
        /\ Len(ret.anchors) = Len(DocumentOrder(call.root))
        /\ AllAnchorIndexSummary(ret.value, AnchorLines(ret.value),
                                 call.root, ret.anchors)

\* C8, amended: in every render that returns, every field and attribute is
\* rendered with an anchor declaration, an index entry and a summary line,
\* in that order; every group and link is rendered with an anchor
\* declaration followed by a summary line, and has no index entry.
C8_IndexEntryOfFieldsAndAttributes ==
    Returned =>
        /\ Len(ret.anchors) = Len(DocumentOrder(call.root))
        /\ ByKind(ret.value, AnchorLines(ret.value), call.root, ret.anchors)

\* a render of a node of each of the four kinds
C8_Witness ==
    /\ Returned
    /\ \A t \in {"field", "group", "attribute", "link"} :
        \E n \in 1..Len(ret.anchors) : ret.anchors[n].nxtype = t
    /\ \E m \in 1..Len(ret.value) : ret.value[m].at = 600
    /\ \E m \in 1..Len(ret.value) : ret.value[m].at = 638

\* the file is there and the root carries a category of the listing: the
\* render gets as far as the name of the class
Parsed ==
    /\ call.nxdl_file.is_file
    /\ call.root.category \in DOMAIN CATEGORY_TO_LISTING

\* the names of the root, of its Structural Nodes and of its symbol tables
NamesOf(root, nodes) ==
    {root.name} \cup {n.name : n \in nodes}
    \cup {t.name : t \in SymbolTables(root)}

\* the render failed for the lack of documentation of a node of one of the
\* names
NoDocumentationFor(names) ==
    /\ ret.kind = "raise"
    /\ ret.context.exc = "Exception"
    /\ \E n \in names : ret.context.msg = "No documentation for: " \o StrOf(n)

\* the line k is the documentation section of a node without documentation
EmptyDocLine(lines, k) ==
    k <= Len(lines) /\ lines[k] = [at |-> 526, text |-> "\n"]

\* the lines between the anchor declaration of the node of the anchor a and
\* its documentation section: the summary, before it the index entry of a
\* field or an attribute, after it the two lines of a deprecated field or
\* group
LinesBeforeDoc(node, a) ==
    (IF a.nxtype \in DOMAIN IndexAt THEN 2 ELSE 1)
    + (IF a.nxtype \in {"field", "group"} /\ node.deprecated # None
       THEN 2 ELSE 0)

\* every Structural Node without <doc> has the empty documentation section
EmptyDocSections(lines, at, root, anchors) ==
    /\ Len(at) = Len(anchors)
    /\ \A n \in 1..Len(anchors) :
        Len(NodeAt(root, anchors[n].node).docs) = 0
        => EmptyDocLine(lines,
                        at[n] + LinesBeforeDoc(NodeAt(root, anchors[n].node),
                                               anchors[n]) + 1)

\* so has the symbol table without <doc>
EmptySymbolsDoc(lines, root) ==
    (Len(root.symbols) = 1 /\ Len(root.symbols[1].docs) = 0)
    => \E k \in 1..Len(lines) :
          lines[k].at = 148 /\ EmptyDocLine(lines, k + 1)

\* C11: a document whose root has no doc element always fails the render
\* with the missing-documentation error; a field, group, attribute, link or
\* symbol table without doc element is rendered with an empty documentation
\* section and does not fail the render.
C11_MissingRootDocFails ==
    Rendered =>
        /\ MissingRootDoc(call.root)
           => NoDocumentationFor({call.root.name})
        /\ ~MissingRootDoc(call.root)
           => ~NoDocumentationFor(NamesOf(call.root,
                                          StructuralNodes(call.root)))
        /\ ret.kind = "return"
           => /\ EmptyDocSections(ret.value, AnchorLines(ret.value),
                                  call.root, ret.anchors)
              /\ EmptySymbolsDoc(ret.value, call.root)

\* C11, amended: a document whose root has no doc element always fails the
\* render with the parse error; the error it was raised for is the
\* missing-documentation error when the file exists, the category of the
\* root is known and the class name starts with NX, and the earlier error
\* otherwise.  A field, group, attribute, link or symbol table without doc
\* element is rendered with an empty documentation section, and no render of
\* a document whose root has a doc element fails for missing documentation.
C11_MissingRootDocFailsOnceReached ==
    Rendered =>
        /\ MissingRootDoc(call.root) => IsParseError
        /\ ( /\ MissingRootDoc(call.root) /\ Parsed
             /\ ~NameWithoutPrefix(call.root) )
           => NoDocumentationFor({call.root.name})
        /\ ~MissingRootDoc(call.root)
           => ~NoDocumentationFor(NamesOf(call.root,
                                          StructuralNodes(call.root)))
        /\ ret.kind = "return"
           => /\ EmptyDocSections(ret.value, AnchorLines(ret.value),
                                  call.root, ret.anchors)
              /\ EmptySymbolsDoc(ret.value, call.root)

\* a root without doc element whose children lack one too
C11_Witness ==
    /\ Rendered /\ Parsed
    /\ MissingRootDoc(call.root) /\ ~NameWithoutPrefix(call.root)
    /\ \E n \in StructuralNodes(call.root) : Len(n.docs) = 0
    /\ IsParseError
    /\ NoDocumentationFor({call.root.name})

\* the summary line of the node of the anchor a with the reference ref
SummaryText(gen, node, a, ref) ==
    Spaces(2 * Len(a.node))
    \o (CASE a.nxtype = "attribute" ->
               "**@" \o StrOf(a.name) \o "**: "
               \o GetRequiredOrOptionalText(gen, node) \o FormatType(node)
               \o FormatUnits(node)
          [] a.nxtype = "field" ->
               "**" \o StrOf(a.name) \o "**: "
               \o GetRequiredOrOptionalText(gen, node) \o FormatType(node)
               \o AnalyzeDimensions(node).value \o FormatUnits(node)
          [] a.nxtype = "group" ->
               "**" \o StrOf(a.name) \o "**: "
               \o GetRequiredOrOptionalText(gen, node) \o GroupType(node))
    \o " " \o ref \o "\n" \o "\n"

\* the summary line of every field, group and attribute carries no reference
NoReferences(lines, at, gen, root, anchors) ==
    /\ Len(at) = Len(anchors)
    /\ \A n \in 1..Len(anchors) :
        anchors[n].nxtype # "link"
        => lines[at[n] + (IF anchors[n].nxtype \in DOMAIN IndexAt
                          THEN 2 ELSE 1)].text
           = SummaryText(gen, NodeAt(root, anchors[n].node), anchors[n], "")

\* C12: when the Inheritance Resolver reports that the class source cannot
\* be found, the back-reference of every node is empty and the render
\* continues and completes: the not-found failure never reaches the
\* document boundary.
C12_NotFoundGivesNoReference ==
    (Rendered /\ ~call.env.resolver.found) =>
        /\ ret.kind = "raise" => ret.context.exc # "FileNotFoundError"
        /\ (Parsed /\ ~SomeStepFails(call.root))
           => /\ ret.kind = "return"
              /\ NoReferences(ret.rst_lines, AnchorLines(ret.rst_lines),
                    [use_application_defaults |->
                        call.root.category = "application"],
                    call.root, ret.anchors)

\* a render with an attribute, a field with an attribute, and a group, each
\* looked up in a class that is not found
C12_Witness ==
    /\ Returned
    /\ ~call.env.resolver.found
    /\ Len(ret.anchors) = 4
    /\ \A t \in {"attribute", "field", "group"} :
        \E n \in 1..4 : ret.anchors[n].nxtype = t

(***************************************************************************)
(* The claims about the rank of the dimension resolver.                    *)
(***************************************************************************)
WellIndexed(l) == \A j \in 1..Len(l) : HasValidIndex(l[j])

NoneOptional(l) == \A j \in 1..Len(l) : ~MarkedOptional(l[j])

NoValuelessRef(l) ==
    \A j \in 1..Len(l) : ~(CarriesRef(l[j]) /\ ~CarriesValue(l[j]))

\* the largest index of the entries of a list that is not empty
LargestIndex(l) ==
    CHOOSE m \in 1..9 :
        /\ \E j \in 1..Len(l) : ToInt(l[j].index) = m
        /\ \A j \in 1..Len(l) : ToInt(l[j].index) <= m

\* what entry j shows
Shown(e) == IF CarriesValue(e) THEN e.value ELSE "."

\* the dimensions of the descriptor of a list without optional entries: at
\* each position up to the largest index the last entry of that index, and
\* "." where there is none
ShownDims(l) ==
    [k \in 1..LargestIndex(l) |->
        IF \E j \in 1..Len(l) : ToInt(l[j].index) = k
        THEN Shown(l[CHOOSE j \in 1..Len(l) :
                        /\ ToInt(l[j].index) = k
                        /\ \A i \in (j + 1)..Len(l) : ToInt(l[i].index) # k])
        ELSE "."]

\* the descriptor of the rank and of the dimensions of the list
RankAndDims(rank, l) ==
    Return(" (Rank: " \o rank \o ", Dimensions: [" \o Join(ShownDims(l), ", ")
           \o "])")

\* no rank declared, entries with positive indices, none of them optional
C13_Case ==
    /\ DimsAnalyzed
    /\ DeclaredRank = None
    /\ Len(Entries) >= 1
    /\ WellIndexed(Entries)
    /\ NoneOptional(Entries)

MismatchError ==
    Raise("RuntimeError",
          "The rank and the number of dimensions do not correspond")

\* a numeric rank declared, entries with positive indices
C14_Case ==
    /\ DimsAnalyzed
    /\ DeclaredRank \in {"1", "2", "3", "4", "5", "6", "7", "8", "9"}
    /\ Len(Entries) >= 1
    /\ WellIndexed(Entries)

\* C14: when the declared rank is numeric and entries are present, the
\* resolver succeeds only if the number of entries equals the rank, and fails
\* with the rank/dimension mismatch error exactly when that number differs
\* from the rank, for every list of entries with positive indices, whether
\* or not the indices leave gaps.
C14_MismatchIffCountDiffers ==
    C14_Case =>
        /\ ret.kind = "return" => Len(Entries) = ToInt(DeclaredRank)
        /\ ret = MismatchError <=> Len(Entries) # ToInt(DeclaredRank)

\* C14, amended: when the declared rank is numeric and entries are present,
\* every index is positive, no entry is optional and no entry carries a
\* reference without a value, the resolver returns the descriptor of the
\* rank and the dimensions if the largest index of the entries equals the
\* rank, and fails with the rank/dimension mismatch error exactly when the
\* largest index differs from the rank.
C14_MismatchIffLargestIndexDiffers ==
    (C14_Case /\ NoneOptional(Entries) /\ NoValuelessRef(Entries)) =>
        /\ LargestIndex(Entries) = ToInt(DeclaredRank)
           => ret = RankAndDims(DeclaredRank, Entries)
        /\ ret = MismatchError
           <=> LargestIndex(Entries) # ToInt(DeclaredRank)

\* rank 1 and the one entry of index 2: as many entries as the rank, and the
\* mismatch error
C14_Witness ==
    /\ C14_Case
    /\ DeclaredRank = "1"
    /\ Len(Entries) = 1
    /\ Entries[1].index = "2"
    /\ ~MarkedOptional(Entries[1])
    /\ CarriesValue(Entries[1])
    /\ ret = MismatchError

(***************************************************************************)
(* The specification of a session: documents are rendered one after the    *)
(* other by calls of the generator that are given the same anchor          *)
(* registry.                                                               *)
(***************************************************************************)
\* most renders of a session
MaxRenders == 3

\* the documents of a session: three that render, with two anchors, with
\* one and with none, and three that fail, after two anchors were
\* registered, before any was, and before anything was printed
SessionRoots ==
    { Root(NXa, "base", <<OneLineDoc>>, <<>>, <<FieldA, LinkA>>),
      Root(NXd, "base", <<OneLineDoc>>, <<>>, <<GroupD>>),
      Root(NX, "base", <<OneLineDoc>>, <<>>, <<>>),
      Root(<<"N", "X", "b">>, "base", <<OneLineDoc>>, <<>>,
           <<FieldB, [FieldA EXCEPT !.docs = <<OneLineDoc, OneLineDoc>>]>>),
      Root(<<"N", "X", "c">>, "base", <<OneLineDoc>>, <<>>,
           <<FieldA, Element("group", NoneChars, NoneChars, <<>>, <<>>)>>),
      Root(<<"N", "X", "e">>, "base", <<>>, <<>>, <<FieldA>>) }

\* the file of a document
FileOf(root) ==
    [NxdlFile(TRUE, "base_classes")
        EXCEPT !.source = "base_classes/" \o StrOf(root.name) \o ".nxdl.xml"]

\* a call in a session: buffer is what the registry holds when the call is
\* made, earlier the outcomes of the calls made before
SessionCall(root, buffer, earlier) ==
    [fn |-> "__call__ in a session", nxdl_file |-> FileOf(root),
     anchor_registry |-> TRUE, env |-> NoContext, root |-> root,
     buffer |-> buffer, earlier |-> earlier]

InitSession ==
    /\ call \in {SessionCall(r, <<>>, <<>>) : r \in SessionRoots}
    /\ ret = NotCalled

\* the generator is called on the document, with the registry of the session
CallGeneratorInSession ==
    /\ call.fn = "__call__ in a session"
    /\ ret = NotCalled
    /\ ret' = CallWith(call.buffer, call.nxdl_file, call.anchor_registry,
                       call.env, call.root)
    /\ UNCHANGED call

\* the caller goes on to the next document, whether the call returned or
\* raised
NextDocument ==
    /\ call.fn = "__call__ in a session"
    /\ ret # NotCalled
    /\ Len(call.earlier) + 1 < MaxRenders
    /\ \E r \in SessionRoots :
        call' = SessionCall(r, ret.buffer,
                    Append(call.earlier,
                           [kind |-> ret.kind, anchors |-> ret.anchors]))
    /\ ret' = NotCalled

NextSession == CallGeneratorInSession \/ NextDocument

SpecSession == InitSession /\ [][NextSession]_vars

(***************************************************************************)
(* The claim about the anchor list of the documents of a session.          *)
(***************************************************************************)
\* a render of a session has returned
ReturnedInSession ==
    /\ call.fn = "__call__ in a session"
    /\ ret # NotCalled
    /\ ret.kind = "return"

\* the anchors registered by the calls of _hyperlink_target of a render,
\* each once, in the order of the calls
RECURSIVE Registered(_)
Registered(anchors) ==
    IF Len(anchors) = 0 THEN <<>>
    ELSE RegistryAdd(Registered(SubSeq(anchors, 1, Len(anchors) - 1)),
                     anchors[Len(anchors)].target)

\* the texts of the lines that list anchors
AnchorListTexts(lines) ==
    SelectSeq([i \in 1..Len(lines) |-> lines[i].text],
              LAMBDA t : \E i \in 1..Len(lines) :
                            lines[i].at = 227 /\ lines[i].text = t)

\* the bullet list of the anchors, sorted without regard to case
BulletList(anchors) ==
    Join([i \in 1..Len(anchors) |->
            "* :ref:" \o BQ \o StrOf(anchors[i]) \o " <" \o StrOf(anchors[i])
            \o ">" \o BQ], "\n") \o "\n"

\* the lines list exactly the anchors own
ListsExactly(lines, own) ==
    AnchorListTexts(lines)
    = IF Len(own) = 0 THEN <<>>
      ELSE <<BulletList(Sorted(own,
                               [i \in 1..Len(own) |-> LowerChars(own[i])]))>>

\* C15: for any sequence of renders that share one Anchor Registry, the
\* "Hypertext Anchors" list of a document that renders contains exactly the
\* anchors registered while rendering that document; the anchors that an
\* earlier render registered before it failed are not in it.
C15_ListOfOwnAnchors ==
    ReturnedInSession => ListsExactly(ret.value, Registered(ret.anchors))

=============================================================================
